---- MODULE Spec2Model ----
(***************************************************************************)
(* A model of the data-sync engine (SyncEngine) and of its in-memory       *)
(* storage adapters (MemoryAdapter, ChangeTrackingAdapter,                 *)
(* VersionedMemoryAdapter).                                                *)
(*                                                                         *)
(* Timestamps are ISO strings in the source and are always compared after  *)
(* `new Date(s)`; the model keeps the parsed value: a natural number for a *)
(* valid date and NaT for a string that parses to an Invalid Date (such as *)
(* the empty string), which compares false with everything.                *)
(***************************************************************************)
EXTENDS Integers, Sequences, FiniteSets, TLC

\* ---------------------------------------------------------------- bounds
MaxTime == 1
MaxOps == 2
MaxBatch == 2
\* writes made to an adapter directly, one record at a time
MaxWrites == 3
\* operations that follow a long run of updates
MaxLate == 1

\* ------------------------------------------------------------ the domain
Devices == {"A", "B", "C"}
Ids == {"r1", "r2"}
Times == 0 .. MaxTime
\* new Date('') is an Invalid Date
NaT == -1
Checkpoints == Times \cup {NaT}
\* marks an id with no entry in the records Map
Absent == [absent |-> TRUE]
\* a record stored without meta.versionVector
NoVector == [d \in {} |-> 0]

VARIABLES
    adapter,          \* which StorageAdapter the engine was constructed with
    resolveConflict,  \* options.resolveConflict: "default" or "custom"
    records,          \* adapter.records: id -> Record, or Absent
    deletedRecords,   \* adapter.deletedRecords
    changeLog,        \* MemoryAdapter / VersionedMemoryAdapter changeLog
    changeTable,      \* ChangeTrackingAdapter changeTable
    now,              \* the server clock read by new Date()
    ops,              \* number of operations performed so far
    writes,           \* history: the writes applied so far, per id and device
    last,             \* history: what the last operation read and computed
    copies,           \* the version of a shared record each device holds locally
    calls,            \* the two applyChanges calls that may overlap
    trace,            \* the adapter calls the overlapping calls made, in order
    client,           \* the fields of a SyncClient and its sync() calls in progress
    http,             \* the request the express middleware is handling
    connection        \* the pooled connection of MySQLAdapter.applyRecords

\* what the operations on the adapter and the atomic applyChanges leave alone
outside == <<calls, trace, client, http, connection>>

vars == <<adapter, resolveConflict, records, deletedRecords, changeLog,
          changeTable, now, ops, writes, last, copies, outside>>

\* ------------------------------------------------------------ helpers
\* new Date(a) > new Date(b)
DateGT(a, b) == a # NaT /\ b # NaT /\ a > b

\* new Date(a) >= new Date(b)
DateGE(a, b) == a # NaT /\ b # NaT /\ a >= b

Record(id, data, updatedAt) ==
    [id |-> id, data |-> data, updatedAt |-> updatedAt, versionVector |-> NoVector]

\* the records one device may submit: data names the device that wrote it
ClientRecords(d) == {Record(id, d, t) : id \in Ids, t \in Times}

\* the elements of a sequence
Range(s) == {s[i] : i \in DOMAIN s}

\* the order in which a client lists the records of a batch
IdList == <<"r1", "r2">>

\* the batch of device d holding, for each id of DOMAIN stamp, the record
\* updated at stamp[id]
BatchOf(d, stamp) ==
    LET ids == SelectSeq(IdList, LAMBDA id : id \in DOMAIN stamp)
    IN [k \in 1 .. Len(ids) |-> Record(ids[k], d, stamp[ids[k]])]

\* batches of at most MaxBatch records, one record per id at most
Batches(d) ==
    {BatchOf(d, stamp) :
        stamp \in UNION {[S -> Times] :
                            S \in {T \in SUBSET Ids : Cardinality(T) <= MaxBatch}}}

\* [...this.records.values()]
LiveRecords(recs) == {recs[id] : id \in {i \in Ids : recs[i] # Absent}}

\* ------------------------------------------------------- MemoryAdapter
MemoryGetChangesSince(recs, deleted, log, timestamp, deviceId) ==
    {r \in LiveRecords(recs) :
        /\ DateGT(r.updatedAt, timestamp)
        /\ ~ \E i \in DOMAIN log :
               log[i].recordId = r.id /\ log[i].deviceId = deviceId
        /\ r.id \notin deleted}

MemoryLogEntry(record, deviceId) ==
    [timestamp |-> record.updatedAt, recordId |-> record.id, deviceId |-> deviceId]

\* (an applyRecords that replaces the whole store by the batch)
ReplaceStore(recs, log, batch, deviceId) ==
    [records |-> [id \in Ids |->
                     IF \E k \in DOMAIN batch : batch[k].id = id
                     THEN batch[CHOOSE k \in DOMAIN batch :
                                   /\ batch[k].id = id
                                   /\ \A j \in DOMAIN batch :
                                          batch[j].id = id => j <= k]
                     ELSE Absent],
     changeLog |-> log \o [k \in DOMAIN batch |->
                              MemoryLogEntry(batch[k], deviceId)]]

RECURSIVE StoreIfNewer(_, _, _, _)
\* (an applyRecords that keeps the stored version unless the incoming one is
\* newer)
StoreIfNewer(recs, log, batch, deviceId) ==
    IF batch = << >> THEN [records |-> recs, changeLog |-> log]
    ELSE LET record == Head(batch) IN
         StoreIfNewer(IF recs[record.id] = Absent
                         \/ DateGT(record.updatedAt, recs[record.id].updatedAt)
                      THEN [recs EXCEPT ![record.id] = record] ELSE recs,
                      Append(log, MemoryLogEntry(record, deviceId)),
                      Tail(batch), deviceId)

RECURSIVE MemoryApplyRecords(_, _, _, _)
\* state is [records, changeLog]; the batch is applied front to back
MemoryApplyRecords(recs, log, batch, deviceId) ==
    IF batch = << >> THEN [records |-> recs, changeLog |-> log]
    ELSE LET record == Head(batch) IN
         MemoryApplyRecords([recs EXCEPT ![record.id] = record],
                            Append(log, MemoryLogEntry(record, deviceId)),
                            Tail(batch), deviceId)

\* ---------------------------------------------------------- SyncEngine
\* (a resolver that gives a tie to the incoming version)
incomingWinsTies(existing, incoming) ==
    IF DateGE(incoming.updatedAt, existing.updatedAt) THEN incoming ELSE existing

defaultConflictResolver(existing, incoming) ==
    IF DateGT(incoming.updatedAt, existing.updatedAt) THEN incoming ELSE existing

\* the merging resolver of the test suite: {...existing, data: merged,
\* updatedAt: max of both}
customMergeResolver(existing, incoming) ==
    [existing EXCEPT
        !.data = "merged",
        !.updatedAt = IF incoming.updatedAt > existing.updatedAt
                      THEN incoming.updatedAt ELSE existing.updatedAt]

\* serverRecordsMap.get(id)
ServerRecord(serverRecords, id) ==
    IF \E r \in serverRecords : r.id = id
    THEN CHOOSE r \in serverRecords : r.id = id
    ELSE Absent

\* (a resolver asked on equal timestamps too)
IsCandidateConflictOnTie(serverRecord, clientRecord) ==
    /\ serverRecord # Absent
    /\ DateGE(serverRecord.updatedAt, clientRecord.updatedAt)

\* whether resolveConflicts calls the resolver for this client record
IsCandidateConflict(serverRecord, clientRecord) ==
    /\ serverRecord # Absent
    /\ DateGT(serverRecord.updatedAt, clientRecord.updatedAt)

\* (a conflict entry with the two versions exchanged)
ConflictEntrySwapped(clientRecord, serverRecord) ==
    [recordId |-> clientRecord.id,
     localVersion |-> serverRecord,
     remoteVersion |-> clientRecord]

\* the entry pushed when the resolver throws
ConflictEntry(clientRecord, serverRecord) ==
    [recordId |-> clientRecord.id,
     localVersion |-> clientRecord,
     remoteVersion |-> serverRecord]

RECURSIVE resolveConflicts(_, _, _, _)
\* throwsFor: the ids for which the caller-supplied resolver throws
resolveConflicts(clientRecords, serverRecords, resolver, throwsFor) ==
    IF clientRecords = << >>
    THEN [resolvedRecords |-> << >>, conflicts |-> << >>, calls |-> << >>]
    ELSE
      LET clientRecord == Head(clientRecords)
          serverRecord == ServerRecord(serverRecords, clientRecord.id)
          rest == resolveConflicts(Tail(clientRecords), serverRecords,
                                   resolver, throwsFor)
      IN  IF ~ IsCandidateConflict(serverRecord, clientRecord)
          THEN [rest EXCEPT !.resolvedRecords = <<clientRecord>> \o @]
          ELSE IF resolver = "custom" /\ clientRecord.id \in throwsFor
          THEN [rest EXCEPT
                  !.conflicts = <<ConflictEntry(clientRecord, serverRecord)>> \o @,
                  !.calls = <<[existing |-> serverRecord,
                               incoming |-> clientRecord,
                               threw |-> TRUE,
                               resolved |-> Absent]>> \o @]
          ELSE LET resolvedRecord ==
                     IF resolver = "default"
                     THEN defaultConflictResolver(serverRecord, clientRecord)
                     ELSE customMergeResolver(serverRecord, clientRecord)
               IN [rest EXCEPT
                     !.resolvedRecords = <<resolvedRecord>> \o @,
                     !.calls = <<[existing |-> serverRecord,
                                  incoming |-> clientRecord,
                                  threw |-> FALSE,
                                  resolved |-> resolvedRecord]>> \o @]

\* the ids of a batch for which the resolver is invoked
ConflictIds(clientRecords, serverRecords) ==
    {r.id : r \in {c \in Range(clientRecords) :
        IsCandidateConflict(ServerRecord(serverRecords, c.id), c)}}

\* ----------------------------------------------- ChangeTrackingAdapter
\* bufferSize of pruneChangeTable
bufferSize == 100

\* BaseAdapter.compareTimestamps: dateA < dateB ? -1 : dateA > dateB ? 1 : 0,
\* where a comparison with an Invalid Date is false
compareTimestamps(a, b) ==
    IF a = NaT \/ b = NaT THEN 0
    ELSE IF a < b THEN -1 ELSE IF a > b THEN 1 ELSE 0

\* the elements of list at the indices of keep, in the order of the list
Pick(list, keep) ==
    LET indices == SelectSeq([i \in DOMAIN list |-> i], LAMBDA i : i \in keep)
    IN [p \in DOMAIN indices |-> list[indices[p]]]

\* the comparators given to Array.prototype.sort: pruneChangeTable compares
\* (b.timestamp, a.timestamp), getChangeHistory (a.timestamp, b.timestamp)
TimestampOrder(a, b, newestFirst) ==
    IF newestFirst THEN compareTimestamps(b.timestamp, a.timestamp)
    ELSE compareTimestamps(a.timestamp, b.timestamp)

\* Array.prototype.sort with one of these comparators: a stable sort. The
\* element at index j is put before the one at index i when the comparator
\* orders it first, or when it returns 0 and j < i. (The timestamps of the
\* change table are valid dates, on which the comparator is consistent.)
StableSort(list, newestFirst) ==
    LET n == Len(list)
        first(j, i) == IF j < i
                       THEN TimestampOrder(list[j], list[i], newestFirst) <= 0
                       ELSE TimestampOrder(list[j], list[i], newestFirst) < 0
        \* <<k, i>>: k elements are put before the one at index i
        ahead == {<<Cardinality({j \in 1 .. n : first(j, i)}), i>> : i \in 1 .. n}
    IN [p \in 1 .. n |-> list[(CHOOSE a \in ahead : a[1] = p - 1)[2]]]

\* [...changeTable].sort((a, b) => compareTimestamps(b.timestamp, a.timestamp))
SortNewestFirst(table) == StableSort(table, TRUE)

\* [...new Set(list)]: the first occurrence of every element, in order
Unique(list) ==
    Pick(list, {i \in DOMAIN list : \A j \in 1 .. (i - 1) : list[j] # list[i]})

\* latestChanges.values(): per record id the first entry of sortedChanges
LatestChangesList(sortedChanges) ==
    Pick(sortedChanges,
         {i \in DOMAIN sortedChanges :
             \A j \in 1 .. (i - 1) :
                 sortedChanges[j].recordId # sortedChanges[i].recordId})

\* (a pruning that keeps the buffer of recent changes only)
RecentOnly(table) ==
    LET sortedChanges == SortNewestFirst(table)
    IN SubSeq(sortedChanges, 1,
              IF Len(sortedChanges) < bufferSize
              THEN Len(sortedChanges) ELSE bufferSize)

pruneChangeTable(table) ==
    LET sortedChanges == SortNewestFirst(table)
        latestChangesList == LatestChangesList(sortedChanges)
        recentChanges ==
            SubSeq(sortedChanges, 1,
                   IF Len(sortedChanges) < bufferSize
                   THEN Len(sortedChanges) ELSE bufferSize)
    IN Unique(latestChangesList \o recentChanges)

trackChange(table, recordId, deviceId, timestamp, operation) ==
    pruneChangeTable(Append(table, [recordId |-> recordId,
                                    deviceId |-> deviceId,
                                    timestamp |-> timestamp,
                                    operation |-> operation]))

\* getChangeHistory(recordId): the entries of the record, sorted by timestamp
getChangeHistory(table, recordId) ==
    StableSort(SelectSeq(table, LAMBDA entry : entry.recordId = recordId), FALSE)

\* (the ids of the entries newer than timestamp, whoever wrote them)
ChangedRecordIdsOfAnyDevice(table, timestamp, deviceId) ==
    LET changed == SelectSeq(table, LAMBDA entry :
                                 DateGT(entry.timestamp, timestamp))
    IN [i \in DOMAIN changed |-> changed[i].recordId]

\* the ids of the entries newer than timestamp that deviceId did not write:
\* changeTable.filter(...).map(entry => entry.recordId)
ChangedRecordIds(table, timestamp, deviceId) ==
    LET changed == SelectSeq(table, LAMBDA entry :
                                 /\ DateGT(entry.timestamp, timestamp)
                                 /\ entry.deviceId # deviceId)
    IN [i \in DOMAIN changed |-> changed[i].recordId]

\* a list of records, in the order of the first matching entry of each
TrackingGetChangesSince(recs, deleted, table, timestamp, deviceId) ==
    LET uniqueRecordIds == Unique(ChangedRecordIds(table, timestamp, deviceId))
        F[i \in 0 .. Len(uniqueRecordIds)] ==
            IF i = 0 THEN << >>
            ELSE LET id == uniqueRecordIds[i] IN
                 IF recs[id] # Absent /\ id \notin deleted
                 THEN Append(F[i - 1], recs[id])
                 ELSE F[i - 1]
    IN F[Len(uniqueRecordIds)]

\* Array.prototype.slice(start, end): a negative index counts from the end of
\* the list, and both are clamped to the list
Slice(list, start, end) ==
    LET clamp(i) == IF i < 0
                    THEN (IF Len(list) + i < 0 THEN 0 ELSE Len(list) + i)
                    ELSE (IF i > Len(list) THEN Len(list) ELSE i)
    IN SubSeq(list, clamp(start) + 1, clamp(end))

RECURSIVE TrackingApplyRecords(_, _, _, _)
\* state is [records, changeTable]
TrackingApplyRecords(recs, table, batch, deviceId) ==
    IF batch = << >> THEN [records |-> recs, changeTable |-> table]
    ELSE LET record == Head(batch)
             operation == IF recs[record.id] # Absent THEN "update" ELSE "create"
         IN TrackingApplyRecords(
                [recs EXCEPT ![record.id] = record],
                trackChange(table, record.id, deviceId, record.updatedAt, operation),
                Tail(batch), deviceId)

\* ---------------------------------------------- VersionedMemoryAdapter
\* vector[deviceId] || 0
Counter(vector, deviceId) ==
    IF deviceId \in DOMAIN vector THEN vector[deviceId] ELSE 0

\* (a counter that restarts at 1 on every write)
RestartCounter(vector, deviceId) ==
    [d \in DOMAIN vector \cup {deviceId} |->
        IF d = deviceId THEN 1 ELSE vector[d]]

\* versionVector[deviceId] = (versionVector[deviceId] || 0) + 1
Increment(vector, deviceId) ==
    [d \in DOMAIN vector \cup {deviceId} |->
        IF d = deviceId THEN Counter(vector, deviceId) + 1 ELSE vector[d]]

\* (a test that lacks the strict dimension: greater or equal everywhere)
isSuccessorOrEqual(vector1, vector2) ==
    \A d \in DOMAIN vector2 : ~ (Counter(vector1, d) < vector2[d])

isSuccessor(vector1, vector2) ==
    /\ \A d \in DOMAIN vector2 : ~ (Counter(vector1, d) < vector2[d])
    /\ \/ \E d \in DOMAIN vector2 : Counter(vector1, d) > vector2[d]
       \/ \E d \in DOMAIN vector1 : d \notin DOMAIN vector2 /\ vector1[d] > 0

\* (a test that looks at one direction only)
OneSidedConflict(record1, record2) ==
    ~ isSuccessor(record1.versionVector, record2.versionVector)

hasConflict(record1, record2) ==
    /\ ~ isSuccessor(record1.versionVector, record2.versionVector)
    /\ ~ isSuccessor(record2.versionVector, record1.versionVector)

MergeVectors(vector1, vector2) ==
    [d \in DOMAIN vector1 \cup DOMAIN vector2 |->
        IF Counter(vector1, d) > Counter(vector2, d)
        THEN Counter(vector1, d) ELSE Counter(vector2, d)]

\* (a resolution that always keeps the version that arrived last)
KeepIncoming(record1, record2) ==
    [record2 EXCEPT !.versionVector =
        MergeVectors(record1.versionVector, record2.versionVector)]

\* (a resolution that always keeps the version already stored)
KeepExisting(record1, record2) ==
    [record1 EXCEPT !.versionVector =
        MergeVectors(record1.versionVector, record2.versionVector)]

VersionedResolveConflict(record1, record2) ==
    LET useRecord1 == DateGE(record1.updatedAt, record2.updatedAt)
        mergedVector == MergeVectors(record1.versionVector, record2.versionVector)
    IN [(IF useRecord1 THEN record1 ELSE record2)
            EXCEPT !.versionVector = mergedVector]

\* The two records applyRecords holds when it reaches the conflict test.
\* versionVector is not a copy: it is the object held by existingRecord.meta,
\* so the increment is also seen through existingRecord when hasConflict and
\* resolveConflict read it.
VersionedPair(existingRecord, record, deviceId) ==
    LET versionVector ==
            Increment(IF existingRecord # Absent
                      THEN existingRecord.versionVector ELSE NoVector, deviceId)
    IN [existing |-> IF existingRecord # Absent
                     THEN [existingRecord EXCEPT !.versionVector = versionVector]
                     ELSE Absent,
        versioned |-> [record EXCEPT !.versionVector = versionVector]]

\* One iteration of applyRecords
VersionedStore(existingRecord, record, deviceId) ==
    LET pair == VersionedPair(existingRecord, record, deviceId)
    IN IF existingRecord # Absent /\ hasConflict(pair.existing, pair.versioned)
       THEN VersionedResolveConflict(pair.existing, pair.versioned)
       ELSE pair.versioned

RECURSIVE VersionedApplyRecords(_, _, _, _)
\* state is [records, changeLog]
VersionedApplyRecords(recs, log, batch, deviceId) ==
    IF batch = << >> THEN [records |-> recs, changeLog |-> log]
    ELSE LET record == Head(batch) IN
         VersionedApplyRecords(
             [recs EXCEPT ![record.id] =
                 VersionedStore(recs[record.id], record, deviceId)],
             Append(log, MemoryLogEntry(record, deviceId)),
             Tail(batch), deviceId)

\* ------------------------------------------- the adapter behind the engine
\* a Set for MemoryAdapter and VersionedMemoryAdapter (the order of the
\* records Map is not modelled), a list for ChangeTrackingAdapter
GetChangesSince(timestamp, deviceId) ==
    IF adapter = "ChangeTrackingAdapter"
    THEN TrackingGetChangesSince(records, deletedRecords, changeTable,
                                 timestamp, deviceId)
    ELSE MemoryGetChangesSince(records, deletedRecords, changeLog,
                               timestamp, deviceId)

\* (a page cut with limit as the index where it ends)
LimitAsEnd(timestamp, deviceId, limit, offset) ==
    Slice(TrackingGetChangesSince(records, deletedRecords, changeTable,
                                  timestamp, deviceId),
          offset, limit)

\* ChangeTrackingAdapter.getChangesSincePaginated
getChangesSincePaginated(timestamp, deviceId, limit, offset) ==
    Slice(TrackingGetChangesSince(records, deletedRecords, changeTable,
                                  timestamp, deviceId),
          offset, offset + limit)

\* the records of a getChangesSince result
AsSet(changes) ==
    IF adapter = "ChangeTrackingAdapter" THEN Range(changes) ELSE changes

\* [records, changeLog, changeTable] after adapter.applyRecords(batch, deviceId)
ApplyRecordsResult(batch, deviceId) ==
    IF adapter = "ChangeTrackingAdapter"
    THEN LET s == TrackingApplyRecords(records, changeTable, batch, deviceId)
         IN [records |-> s.records, changeLog |-> changeLog,
             changeTable |-> s.changeTable]
    ELSE LET s == IF adapter = "VersionedMemoryAdapter"
                  THEN VersionedApplyRecords(records, changeLog, batch, deviceId)
                  ELSE MemoryApplyRecords(records, changeLog, batch, deviceId)
         IN [records |-> s.records, changeLog |-> s.changeLog,
             changeTable |-> changeTable]

\* the writes history after a batch was applied by deviceId
CountWrites(batch, deviceId) ==
    [id \in Ids |-> [d \in Devices |->
        writes[id][d] +
        IF d = deviceId
        THEN Cardinality({i \in DOMAIN batch : batch[i].id = id}) ELSE 0]]

\* an optional field: no element when undefined, else the value
Undefined == {}

Defined(value) == {value}

\* ------------------------------------------------------------- actions
\* no call is in progress: the caller took the result of the last one
Idle == last.op = "none"

\* (an engine that deletes the records the payload names in deletedIds and
\* reports them)
ApplyChangesWithDeletions(payload, throwsFor, isRepeat) ==
    LET serverChanges == GetChangesSince(payload.lastSyncAt, payload.deviceId)
        rc == resolveConflicts(payload.records, AsSet(serverChanges),
                               resolveConflict, throwsFor)
        after == ApplyRecordsResult(rc.resolvedRecords, payload.deviceId)
        deleted == IF "deletedIds" \in DOMAIN payload
                   THEN payload.deletedIds ELSE << >>
        result == [updatedRecords |-> serverChanges,
                   deletedIds |-> deleted,
                   syncTimestamp |-> now,
                   conflicts |-> IF Len(rc.conflicts) > 0
                                 THEN Defined(rc.conflicts) ELSE Undefined]
    IN /\ records' = [id \in Ids |-> IF id \in Range(deleted) THEN Absent
                                     ELSE after.records[id]]
       /\ deletedRecords' = deletedRecords \cup Range(deleted)
       /\ changeLog' = after.changeLog
       /\ changeTable' = after.changeTable
       /\ writes' = CountWrites(rc.resolvedRecords, payload.deviceId)
       /\ last' = [op |-> "applyChanges",
                   payload |-> payload,
                   serverChanges |-> serverChanges,
                   resolvedRecords |-> rc.resolvedRecords,
                   calls |-> rc.calls,
                   result |-> result,
                   before |-> records,
                   repeated |-> isRepeat]
       /\ UNCHANGED <<outside, copies, adapter, resolveConflict, now>>

\* SyncEngine.applyChanges, run without interleaving
ApplyChanges(payload, throwsFor, isRepeat) ==
    LET serverChanges == GetChangesSince(payload.lastSyncAt, payload.deviceId)
        rc == resolveConflicts(payload.records, AsSet(serverChanges),
                               resolveConflict, throwsFor)
        after == ApplyRecordsResult(rc.resolvedRecords, payload.deviceId)
        result == [updatedRecords |-> serverChanges,
                   deletedIds |-> << >>,
                   syncTimestamp |-> now,
                   conflicts |-> IF Len(rc.conflicts) > 0
                                 THEN Defined(rc.conflicts) ELSE Undefined]
    IN /\ records' = after.records
       /\ changeLog' = after.changeLog
       /\ changeTable' = after.changeTable
       /\ writes' = CountWrites(rc.resolvedRecords, payload.deviceId)
       /\ last' = [op |-> "applyChanges",
                   payload |-> payload,
                   serverChanges |-> serverChanges,
                   resolvedRecords |-> rc.resolvedRecords,
                   calls |-> rc.calls,
                   result |-> result,
                   before |-> records,
                   repeated |-> isRepeat]
       /\ UNCHANGED <<outside, copies, adapter, resolveConflict, deletedRecords, now>>

\* the resolver throws for any of the records it is asked about
ThrowChoices(payload) ==
    IF resolveConflict = "custom"
    THEN SUBSET ConflictIds(payload.records,
                            AsSet(GetChangesSince(payload.lastSyncAt,
                                                  payload.deviceId)))
    ELSE {{}}

\* a device sends a sync request
SyncStep ==
    /\ Idle
    /\ ops < MaxOps
    /\ ops' = ops + 1
    /\ \E d \in Devices : \E batch \in Batches(d) : \E t \in Checkpoints :
         LET payload == [records |-> batch, deviceId |-> d, lastSyncAt |-> t]
         IN \E throwsFor \in ThrowChoices(payload) :
                ApplyChanges(payload, throwsFor, FALSE)

\* the device sends the request it has just sent once more, unchanged
ReplayStep ==
    /\ last.op = "applyChanges"
    /\ ~ last.repeated
    /\ UNCHANGED ops
    /\ \E throwsFor \in ThrowChoices(last.payload) :
           ApplyChanges(last.payload, throwsFor, TRUE)

\* a direct adapter.applyRecords(batch, deviceId), as the adapter tests make
ApplyRecords(batch, deviceId) ==
    LET after == ApplyRecordsResult(batch, deviceId)
    IN /\ records' = after.records
       /\ changeLog' = after.changeLog
       /\ changeTable' = after.changeTable
       /\ writes' = CountWrites(batch, deviceId)
       /\ last' = [op |-> "applyRecords", batch |-> batch,
                   deviceId |-> deviceId, before |-> records]
       /\ UNCHANGED <<outside, copies, adapter, resolveConflict, deletedRecords, now>>

ApplyStep ==
    /\ Idle
    /\ ops < MaxOps
    /\ ops' = ops + 1
    /\ \E d \in Devices : \E batch \in Batches(d) \ {<< >>} :
           ApplyRecords(batch, d)

\* adapter.deleteRecord(recordId, deviceId)
DeleteRecord(recordId, deviceId) ==
    /\ deletedRecords' = deletedRecords \cup {recordId}
    /\ records' = [records EXCEPT ![recordId] = Absent]
    /\ IF adapter = "ChangeTrackingAdapter"
       THEN /\ changeTable' = trackChange(changeTable, recordId, deviceId,
                                           now, "delete")
            /\ UNCHANGED changeLog
       ELSE /\ changeLog' = Append(changeLog,
                                   [timestamp |-> now, recordId |-> recordId,
                                    deviceId |-> deviceId])
            /\ UNCHANGED changeTable
    /\ last' = [op |-> "deleteRecord", recordId |-> recordId,
                deviceId |-> deviceId, before |-> records]
    /\ UNCHANGED <<outside, copies, adapter, resolveConflict, now, writes>>

DeleteStep ==
    /\ Idle
    /\ ops < MaxOps
    /\ ops' = ops + 1
    /\ \E id \in Ids : \E d \in Devices : DeleteRecord(id, d)

\* the caller takes the result
Return ==
    /\ ~ Idle
    /\ last' = [op |-> "none"]
    /\ UNCHANGED <<outside, copies, adapter, resolveConflict, records, deletedRecords,
                   changeLog, changeTable, now, ops, writes>>

\* time passes on the server
Tick ==
    /\ Idle
    /\ now < MaxTime
    /\ now' = now + 1
    /\ UNCHANGED <<outside, copies, adapter, resolveConflict, records, deletedRecords,
                   changeLog, changeTable, ops, writes, last>>

\* two applyChanges calls may be in progress at once
CallIds == {1, 2}

\* no applyChanges call is in progress
NoCalls == [c \in CallIds |-> [pc |-> "idle"]]

\* new SyncClient(options): an empty checkpoint, nothing pending, no sync()
\* in progress
NewClient == [lastSyncAt |-> NaT,
              pendingChanges |-> << >>,
              pendingDeletions |-> << >>,
              pendingAttachments |-> {},
              syncs |-> << >>]

\* no request is being handled
NoRequest == [pc |-> "none"]

\* no connection is taken from the pool
NoConnection == [pc |-> "none"]

\* a freshly constructed adapter, and an engine given one of `resolvers`
InitAdapter(kind, resolvers) ==
    /\ adapter = kind
    /\ resolveConflict \in resolvers
    /\ records = [id \in Ids |-> Absent]
    /\ deletedRecords = {}
    /\ changeLog = << >>
    /\ changeTable = << >>
    /\ now = 0
    /\ ops = 0
    /\ writes = [id \in Ids |-> [d \in Devices |-> 0]]
    /\ last = [op |-> "none"]
    /\ calls = NoCalls
    /\ trace = << >>
    /\ client = NewClient
    /\ http = NoRequest
    /\ connection = NoConnection

\* no device holds a local copy
NoCopies == [d \in Devices |-> Absent]

Init ==
    /\ InitAdapter("MemoryAdapter", {"default", "custom"})
    /\ copies = NoCopies

Next == SyncStep \/ Return

\* SyncEngine over a MemoryAdapter: devices sync one after the other
Spec == Init /\ [][Next]_vars

NextRetry == SyncStep \/ ReplayStep \/ Return

\* the same, where a device may send a request a second time
SpecRetry == Init /\ [][NextRetry]_vars

\* ------------------------------------------- the resolver on its own
\* two different versions of one record
VersionPairs ==
    LET versions(id) == {Record(id, d, t) : d \in Devices, t \in Times}
    IN UNION {{<<e, i>> : e \in versions(id), i \in versions(id)} : id \in Ids}
           \ {<<v, v>> : v \in UNION {versions(id) : id \in Ids}}

\* a caller resolves one pair, and the same pair with the roles exchanged
ResolveStep ==
    /\ Idle
    /\ ops < MaxOps
    /\ ops' = ops + 1
    /\ \E pair \in VersionPairs :
         last' = [op |-> "resolve",
                  existing |-> pair[1],
                  incoming |-> pair[2],
                  resolved |-> defaultConflictResolver(pair[1], pair[2]),
                  exchanged |-> defaultConflictResolver(pair[2], pair[1])]
    /\ UNCHANGED <<outside, copies, adapter, resolveConflict, records, deletedRecords,
                   changeLog, changeTable, now, writes>>

InitResolver ==
    /\ InitAdapter("MemoryAdapter", {"default"})
    /\ copies = NoCopies

NextResolver == ResolveStep \/ Return

SpecResolver == InitResolver /\ [][NextResolver]_vars

\* ------------------------------- one record, one copy of it per device
\* the device that creates the record
Creator == "A"

\* the record every device holds a version of
SharedId == "r1"

\* deviceId has synced: every sync of one record logs a write under it
Synced(deviceId) ==
    \E i \in DOMAIN changeLog : changeLog[i].deviceId = deviceId

\* the creator syncs the record first
CreateStep ==
    /\ Idle
    /\ ~ Synced(Creator)
    /\ ops' = ops + 1
    /\ \E t \in Checkpoints :
         ApplyChanges([records |-> <<copies[Creator]>>,
                       deviceId |-> Creator, lastSyncAt |-> t], {}, FALSE)

\* another device syncs its copy, once, with a checkpoint that is not later
\* than the updatedAt of the original
CopyStep ==
    /\ Idle
    /\ Synced(Creator)
    /\ ops' = ops + 1
    /\ \E d \in Devices \ {Creator} :
         /\ ~ Synced(d)
         /\ \E t \in Times :
              /\ t <= copies[Creator].updatedAt
              /\ ApplyChanges([records |-> <<copies[d]>>,
                               deviceId |-> d, lastSyncAt |-> t], {}, FALSE)

InitLWW ==
    /\ InitAdapter("MemoryAdapter", {"default"})
    /\ copies \in {c \in [Devices -> UNION {ClientRecords(d) : d \in Devices}] :
                      \A d \in Devices : c[d].id = SharedId /\ c[d].data = d}

NextLWW == CreateStep \/ CopyStep \/ Return

SpecLWW == InitLWW /\ [][NextLWW]_vars

\* ------------------------------------------ the adapters on their own
\* applyRecords, deleteRecord and the clock, on a ChangeTrackingAdapter
InitTracking ==
    /\ InitAdapter("ChangeTrackingAdapter", {"default"})
    /\ copies = NoCopies

NextTracking == ApplyStep \/ DeleteStep \/ Tick \/ Return

SpecTracking == InitTracking /\ [][NextTracking]_vars

\* one device writes one record: adapter.applyRecords([record], deviceId)
WriteStep ==
    /\ Idle
    /\ ops < MaxWrites
    /\ ops' = ops + 1
    /\ \E d \in Devices : \E record \in ClientRecords(d) :
           ApplyRecords(<<record>>, d)

InitVersioned ==
    /\ InitAdapter("VersionedMemoryAdapter", {"default"})
    /\ copies = NoCopies

NextVersioned == WriteStep \/ Return

SpecVersioned == InitVersioned /\ [][NextVersioned]_vars

\* ------------------- one record, written once by each device, any order
\* the updatedAt values of the writes: as many as there are devices
Stamps == 0 .. Cardinality(Devices) - 1

\* the devices whose write has been applied
Arrived == {d \in Devices : writes[SharedId][d] > 0}

\* the write of one more device arrives:
\* adapter.applyRecords([updateRecord], deviceId)
ArriveStep ==
    /\ Idle
    /\ ops' = ops + 1
    /\ \E d \in Devices \ Arrived : ApplyRecords(<<copies[d]>>, d)

\* every device holds its own version, no two with the same updatedAt
InitArrival ==
    /\ InitAdapter("VersionedMemoryAdapter", {"default"})
    /\ copies \in {c \in [Devices -> {Record(SharedId, d, t) :
                                           d \in Devices, t \in Stamps}] :
                      /\ \A d \in Devices : c[d].data = d
                      /\ \A d, e \in Devices :
                            d # e => c[d].updatedAt # c[e].updatedAt}

NextArrival == ArriveStep \/ Return

SpecArrival == InitArrival /\ [][NextArrival]_vars

\* ------------------------------------- the conflict test on its own
\* version vectors: a counter for some of the devices
VersionVectors == UNION {[S -> 0 .. MaxWrites] : S \in SUBSET Devices}

\* a record carrying the given vector in meta.versionVector
Versioned(vector) ==
    [Record(SharedId, Creator, 0) EXCEPT !.versionVector = vector]

\* hasConflict is applied to two records, and to the same two exchanged
ConflictStep ==
    /\ Idle
    /\ ops < MaxOps
    /\ ops' = ops + 1
    /\ \E vector1, vector2 \in VersionVectors :
         last' = [op |-> "hasConflict",
                  vector1 |-> vector1,
                  vector2 |-> vector2,
                  result |-> hasConflict(Versioned(vector1), Versioned(vector2)),
                  exchanged |-> hasConflict(Versioned(vector2), Versioned(vector1))]
    /\ UNCHANGED <<outside, copies, adapter, resolveConflict, records, deletedRecords,
                   changeLog, changeTable, now, writes>>

InitVectors ==
    /\ InitAdapter("VersionedMemoryAdapter", {"default"})
    /\ copies = NoCopies

NextVectors == ConflictStep \/ Return

SpecVectors == InitVectors /\ [][NextVectors]_vars

\* --------------- a record updated more often than the buffer has room
\* the number of updates of the loop: enough for pruning to drop entries
Updates == bufferSize + 2

\* one pass of the loop: adapter.applyRecords([updatedRecord], 'device-1'),
\* every update with a later updatedAt than the one before
UpdateStep ==
    /\ Idle
    /\ ops < Updates
    /\ ops' = ops + 1
    /\ ApplyRecords(<<Record(SharedId, Creator, ops + 1)>>, Creator)

\* after the loop a device writes one record, with an early updatedAt
LateWriteStep ==
    /\ Idle
    /\ ops >= Updates
    /\ ops < Updates + MaxLate
    /\ ops' = ops + 1
    /\ \E d \in Devices : \E record \in ClientRecords(d) :
           ApplyRecords(<<record>>, d)

\* after the loop a device deletes a record
LateDeleteStep ==
    /\ Idle
    /\ ops >= Updates
    /\ ops < Updates + MaxLate
    /\ ops' = ops + 1
    /\ \E id \in Ids : \E d \in Devices : DeleteRecord(id, d)

NextPruning == UpdateStep \/ LateWriteStep \/ LateDeleteStep \/ Return

SpecPruning == InitTracking /\ [][NextPruning]_vars

\* ------------- single writes, one after the other, to a tracking adapter
NextWrites == WriteStep \/ Return

SpecWrites == InitTracking /\ [][NextWrites]_vars

\* ----------------------- a data set applied in one call, then paged
\* adapter.applyRecords(largeDataset, deviceId) on a fresh adapter
DatasetStep ==
    /\ Idle
    /\ ops = 0
    /\ ops' = ops + 1
    /\ \E d \in Devices : \E batch \in Batches(d) \ {<< >>} :
           ApplyRecords(batch, d)

NextPages == DatasetStep \/ DeleteStep \/ Return

SpecPages == InitTracking /\ [][NextPages]_vars

\* ------------- single writes with three time levels, pages read between
\* one device writes one record, whose updatedAt is one of Stamps
StampedWriteStep ==
    /\ Idle
    /\ ops < MaxWrites
    /\ ops' = ops + 1
    /\ \E d \in Devices : \E id \in Ids : \E t \in Stamps :
           ApplyRecords(<<Record(id, d, t)>>, d)

NextPaging == StampedWriteStep \/ Return

SpecPaging == InitTracking /\ [][NextPaging]_vars

\* ------------- applyChanges calls whose adapter calls interleave
\* applyChanges up to its first await: the engine calls getChangesSince, and
\* with what it returned resolves the conflicts of the payload
ApplyChangesRead(c, payload, throwsFor) ==
    LET serverChanges == GetChangesSince(payload.lastSyncAt, payload.deviceId)
        rc == resolveConflicts(payload.records, AsSet(serverChanges),
                               resolveConflict, throwsFor)
    IN /\ calls[c].pc = "idle"
       /\ calls' = [calls EXCEPT ![c] =
                       [pc |-> "resolved",
                        payload |-> payload,
                        before |-> records,
                        beforeLog |-> changeLog,
                        serverChanges |-> serverChanges,
                        resolvedRecords |-> rc.resolvedRecords,
                        conflicts |-> rc.conflicts]]
       /\ trace' = Append(trace, [call |-> c, op |-> "getChangesSince",
                                  timestamp |-> payload.lastSyncAt,
                                  deviceId |-> payload.deviceId,
                                  ok |-> TRUE])
       /\ UNCHANGED <<adapter, resolveConflict, records, deletedRecords,
                      changeLog, changeTable, now, ops, writes, last, copies,
                      client, http, connection>>

\* (a result that leaves out the server versions of the records the client
\* submitted)
ResultWithoutSubmitted(call) ==
    LET submitted == {call.payload.records[k].id : k \in DOMAIN call.payload.records}
    IN [updatedRecords |->
            IF adapter = "ChangeTrackingAdapter"
            THEN SelectSeq(call.serverChanges, LAMBDA r : r.id \notin submitted)
            ELSE {r \in call.serverChanges : r.id \notin submitted},
        deletedIds |-> << >>,
        syncTimestamp |-> now,
        conflicts |-> IF Len(call.conflicts) > 0
                      THEN Defined(call.conflicts) ELSE Undefined]

\* const result: SyncResult = {...}
ResultOf(call) ==
    [updatedRecords |-> call.serverChanges,
     deletedIds |-> << >>,
     syncTimestamp |-> now,
     conflicts |-> IF Len(call.conflicts) > 0
                   THEN Defined(call.conflicts) ELSE Undefined]

\* (an engine that does not call applyRecords when nothing was resolved)
SkipEmptyWrite(c) ==
    LET call == calls[c]
        after == ApplyRecordsResult(call.resolvedRecords, call.payload.deviceId)
    IN /\ call.pc = "resolved"
       /\ records' = after.records
       /\ changeLog' = after.changeLog
       /\ changeTable' = after.changeTable
       /\ writes' = CountWrites(call.resolvedRecords, call.payload.deviceId)
       /\ calls' = [calls EXCEPT ![c] =
                       [call EXCEPT !.pc = "returned"] @@
                           [result |-> ResultOf(call)]]
       /\ trace' = IF call.resolvedRecords = << >> THEN trace
                   ELSE Append(trace, [call |-> c, op |-> "applyRecords",
                                       records |-> call.resolvedRecords,
                                       deviceId |-> call.payload.deviceId,
                                       ok |-> TRUE])
       /\ UNCHANGED <<adapter, resolveConflict, deletedRecords, now, ops,
                      last, copies, client, http, connection>>

\* the rest of applyChanges: the engine calls applyRecords with the resolved
\* records and returns the result
ApplyChangesWrite(c) ==
    LET call == calls[c]
        after == ApplyRecordsResult(call.resolvedRecords, call.payload.deviceId)
        result == ResultOf(call)
    IN /\ call.pc = "resolved"
       /\ records' = after.records
       /\ changeLog' = after.changeLog
       /\ changeTable' = after.changeTable
       /\ writes' = CountWrites(call.resolvedRecords, call.payload.deviceId)
       /\ calls' = [calls EXCEPT ![c] =
                       [call EXCEPT !.pc = "returned"] @@ [result |-> result]]
       /\ trace' = Append(trace, [call |-> c, op |-> "applyRecords",
                                  records |-> call.resolvedRecords,
                                  deviceId |-> call.payload.deviceId,
                                  ok |-> TRUE])
       /\ UNCHANGED <<adapter, resolveConflict, deletedRecords, now, ops,
                      last, copies, client, http, connection>>

\* the payloads of the overlapping calls: a device other than the creator
\* submits no record or one record, all devices having synced at time 0
CallPayloads ==
    {[records |-> batch, deviceId |-> d, lastSyncAt |-> 0] :
        d \in Devices \ {Creator},
        batch \in {<< >>} \cup {<<Record(id, e, t)>> :
                                    id \in Ids, e \in Devices \ {Creator},
                                    t \in Times}}

\* a call arrives at the engine; the second call arrives after the first
CallStep ==
    \E c \in CallIds : \E payload \in CallPayloads :
        /\ \A b \in CallIds : b < c => calls[b].pc # "idle"
        /\ payload.records \in Batches(payload.deviceId)
        /\ \E throwsFor \in ThrowChoices(payload) :
               ApplyChangesRead(c, payload, throwsFor)

\* the adapter runs the write of a call
CommitStep == \E c \in CallIds : ApplyChangesWrite(c)

\* the creator syncs a record before the calls arrive
SeedStep ==
    /\ Idle
    /\ trace = << >>
    /\ ops = 0
    /\ ops' = 1
    /\ \E r \in ClientRecords(Creator) :
           ApplyChanges([records |-> <<r>>, deviceId |-> Creator,
                         lastSyncAt |-> 0], {}, FALSE)

NextOverlap == SeedStep \/ Return \/ CallStep \/ CommitStep

SpecOverlap == Init /\ [][NextOverlap]_vars

\* ------------- applyChanges calls over an adapter whose calls may fail
\* (an engine that takes a failed getChangesSince for an empty answer)
ReadFailureIgnored(c, payload) ==
    /\ calls[c].pc = "idle"
    /\ calls' = [calls EXCEPT ![c] =
                    [pc |-> "resolved",
                     payload |-> payload,
                     before |-> records,
                     beforeLog |-> changeLog,
                     serverChanges |-> {},
                     resolvedRecords |-> payload.records,
                     conflicts |-> << >>]]
    /\ trace' = Append(trace, [call |-> c, op |-> "getChangesSince",
                               timestamp |-> payload.lastSyncAt,
                               deviceId |-> payload.deviceId,
                               ok |-> FALSE])
    /\ UNCHANGED <<adapter, resolveConflict, records, deletedRecords,
                   changeLog, changeTable, now, ops, writes, last, copies,
                   client, http, connection>>

\* await this.storageAdapter.getChangesSince(...) throws: the error leaves
\* applyChanges, which has no handler
ReadFails(c, payload) ==
    /\ calls[c].pc = "idle"
    /\ calls' = [calls EXCEPT ![c] =
                    [pc |-> "rejected", payload |-> payload,
                     error |-> "getChangesSince"]]
    /\ trace' = Append(trace, [call |-> c, op |-> "getChangesSince",
                               timestamp |-> payload.lastSyncAt,
                               deviceId |-> payload.deviceId,
                               ok |-> FALSE])
    /\ UNCHANGED <<adapter, resolveConflict, records, deletedRecords,
                   changeLog, changeTable, now, ops, writes, last, copies,
                   client, http, connection>>

\* await this.storageAdapter.applyRecords(...) throws before anything is
\* stored: the error leaves applyChanges and no result is built
WriteFails(c) ==
    LET call == calls[c]
    IN /\ call.pc = "resolved"
       /\ calls' = [calls EXCEPT ![c] =
                       [call EXCEPT !.pc = "rejected"] @@
                           [error |-> "applyRecords"]]
       /\ trace' = Append(trace, [call |-> c, op |-> "applyRecords",
                                  records |-> call.resolvedRecords,
                                  deviceId |-> call.payload.deviceId,
                                  ok |-> FALSE])
       /\ UNCHANGED <<adapter, resolveConflict, records, deletedRecords,
                      changeLog, changeTable, now, ops, writes, last, copies,
                      client, http, connection>>

\* a call arrives and the adapter fails its read
FailedReadStep ==
    \E c \in CallIds : \E payload \in CallPayloads :
        /\ \A b \in CallIds : b < c => calls[b].pc # "idle"
        /\ payload.records \in Batches(payload.deviceId)
        /\ ReadFails(c, payload)

\* the adapter fails the write of a call
FailedWriteStep == \E c \in CallIds : WriteFails(c)

NextFailing == CallStep \/ CommitStep \/ FailedReadStep \/ FailedWriteStep

SpecFailing == Init /\ [][NextFailing]_vars

\* ------------- express middleware: authenticate, then handleSync
\* the keys a request may carry: none, the key the engine accepts, another
ApiKeys == {"", "valid-key", "invalid-key"}

\* req.headers.authorization: undefined, or a key with or without 'Bearer '
Authorizations ==
    {Undefined} \cup {Defined([bearer |-> b, key |-> k]) :
                         b \in BOOLEAN, k \in ApiKeys}

\* req.headers.authorization?.replace('Bearer ', '') || ''
ApiKeyOf(authorization) ==
    IF authorization = Undefined THEN ""
    ELSE (CHOOSE header \in authorization : TRUE).key

\* options.validateApiKey of the engine under test
validateApiKey(apiKey) == apiKey = "valid-key"

\* req.body: a payload of a device that has not synced yet, with no record
\* or one version of the shared record; deviceId "" is a missing deviceId
Bodies ==
    {[records |-> batch, deviceId |-> d, lastSyncAt |-> NaT] :
        d \in Devices \cup {""},
        batch \in {<< >>} \cup {<<Record(SharedId, e, t)>> :
                                    e \in Devices, t \in Times}}

\* a request arrives and authenticate(syncEngine) handles it
Authenticate(authorization, body) ==
    LET apiKey == ApiKeyOf(authorization)
        request == [authorization |-> authorization, body |-> body,
                    before |-> records, next |-> FALSE, applied |-> FALSE]
    IN /\ http.pc = "none"
       /\ http' = IF apiKey = ""
                  THEN request @@ [pc |-> "answered", status |-> 401]
                  ELSE IF ~ validateApiKey(apiKey)
                  THEN request @@ [pc |-> "answered", status |-> 403]
                  ELSE [request EXCEPT !.next = TRUE] @@
                           [pc |-> "handleSync", status |-> 0]
       /\ UNCHANGED <<adapter, resolveConflict, records, deletedRecords,
                      changeLog, changeTable, now, writes, last, copies,
                      calls, trace, client, connection>>

\* (a handler that does not validate the payload)
HandleSyncUnvalidated ==
    /\ http.pc = "handleSync"
    /\ http' = [http EXCEPT !.pc = "applyChanges"]
    /\ UNCHANGED <<adapter, resolveConflict, records, deletedRecords,
                   changeLog, changeTable, now, ops, writes, last, copies,
                   calls, trace, client, connection>>

\* handleSync(syncEngine), called by next(), up to its await
HandleSync ==
    /\ http.pc = "handleSync"
    /\ http' = IF http.body.deviceId = ""
               THEN [http EXCEPT !.pc = "answered", !.status = 400]
               ELSE [http EXCEPT !.pc = "applyChanges"]
    /\ UNCHANGED <<adapter, resolveConflict, records, deletedRecords,
                   changeLog, changeTable, now, ops, writes, last, copies,
                   calls, trace, client, connection>>

\* syncEngine.applyChanges(payload), called by handleSync
HandleSyncApplies ==
    /\ http.pc = "applyChanges"
    /\ Idle
    /\ \E throwsFor \in ThrowChoices(http.body) :
           ApplyChanges(http.body, throwsFor, FALSE)
    /\ UNCHANGED ops

\* res.json(result)
HandleSyncAnswers ==
    /\ http.pc = "applyChanges"
    /\ last.op = "applyChanges"
    /\ http' = [http EXCEPT !.pc = "answered", !.status = 200,
                            !.applied = TRUE]
    /\ UNCHANGED <<adapter, resolveConflict, records, deletedRecords,
                   changeLog, changeTable, now, ops, writes, last, copies,
                   calls, trace, client, connection>>

\* applyChanges throws and handleSync answers 500
HandleSyncFails ==
    /\ http.pc = "applyChanges"
    /\ Idle
    /\ http' = [http EXCEPT !.pc = "answered", !.status = 500,
                            !.applied = TRUE]
    /\ UNCHANGED <<adapter, resolveConflict, records, deletedRecords,
                   changeLog, changeTable, now, ops, writes, last, copies,
                   calls, trace, client, connection>>

\* a request arrives
RequestStep ==
    /\ Idle
    /\ ops < MaxOps
    /\ ops' = ops + 1
    /\ \E authorization \in Authorizations : \E body \in Bodies :
           /\ body.deviceId # "" => body.records \in Batches(body.deviceId)
           /\ Authenticate(authorization, body)

\* the answer has left; the server waits for the next request
AnswerStep ==
    /\ http.pc = "answered"
    /\ http' = NoRequest
    /\ last' = [op |-> "none"]
    /\ UNCHANGED <<adapter, resolveConflict, records, deletedRecords,
                   changeLog, changeTable, now, ops, writes, copies,
                   calls, trace, client, connection>>

NextHttp ==
    RequestStep \/ HandleSync \/ HandleSyncApplies \/ HandleSyncAnswers
        \/ HandleSyncFails \/ AnswerStep

SpecHttp == Init /\ [][NextHttp]_vars

\* ------------- SyncClient: queueing and sync() calls that may overlap
\* the fields of the client that sync() reads and writes
ClientFields(c) ==
    [lastSyncAt |-> c.lastSyncAt,
     pendingChanges |-> c.pendingChanges,
     pendingDeletions |-> c.pendingDeletions,
     pendingAttachments |-> c.pendingAttachments]

\* what the actions on the client leave alone
serverSide == <<adapter, resolveConflict, records, deletedRecords, changeLog,
                changeTable, writes, last, copies, calls, trace, http, connection>>

\* queueChange(record): replaces the queued version of the record, or appends
QueueChange(record) ==
    LET queued == client.pendingChanges
        existing == {i \in DOMAIN queued : queued[i].id = record.id}
    IN /\ client' = [client EXCEPT !.pendingChanges =
                        IF existing # {}
                        THEN [queued EXCEPT ![CHOOSE i \in existing :
                                  \A j \in existing : i <= j] = record]
                        ELSE Append(queued, record)]
       /\ UNCHANGED <<serverSide, now, ops>>

\* queueDeletion(recordId)
QueueDeletion(recordId) ==
    /\ client' = [client EXCEPT
                     !.pendingChanges =
                         SelectSeq(@, LAMBDA r : r.id # recordId),
                     !.pendingDeletions =
                         IF recordId \in Range(@) THEN @
                         ELSE Append(@, recordId)]
    /\ UNCHANGED <<serverSide, now, ops>>

\* attachFile(recordId, file): the attachment id is `${recordId}-${file.name}`
AttachFile(recordId) ==
    /\ client' = [client EXCEPT !.pendingAttachments = @ \cup {recordId}]
    /\ UNCHANGED <<serverSide, now, ops>>

\* sync() up to await fetch(...): the payload is built from the fields and
\* sent; the answer modelled here does not depend on it
SyncSend ==
    /\ client' = [client EXCEPT !.syncs = Append(@, [pc |-> "sent"])]
    /\ UNCHANGED <<serverSide, now>>

\* the server handles the request of sync call s: its answer carries
\* syncTimestamp: new Date().toISOString(), or is not OK
Serve(s, ok) ==
    /\ client.syncs[s].pc = "sent"
    /\ client' = [client EXCEPT !.syncs[s] =
                     [@ EXCEPT !.pc = "answered"] @@
                         [response |-> IF ok
                                       THEN [ok |-> TRUE, syncTimestamp |-> now]
                                       ELSE [ok |-> FALSE]]]
    /\ UNCHANGED <<serverSide, now, ops>>

\* the assignments that end a successful sync()
Completed(c, s) ==
    [c EXCEPT !.lastSyncAt = c.syncs[s].response.syncTimestamp,
              !.pendingChanges = << >>,
              !.pendingDeletions = << >>,
              !.pendingAttachments = {},
              !.syncs[s] = [@ EXCEPT !.pc = "resolved"]]

\* (a client that moves its checkpoint before the attachments are uploaded)
CheckpointBeforeUpload(s) ==
    LET this == client.syncs[s]
    IN /\ this.pc = "answered"
       /\ client' = IF ~ this.response.ok
                    THEN [client EXCEPT !.syncs[s] = [pc |-> "rejected"]]
                    ELSE IF client.pendingAttachments # {}
                    THEN [client EXCEPT
                            !.lastSyncAt = this.response.syncTimestamp,
                            !.syncs[s] = [@ EXCEPT !.pc = "uploading"]]
                    ELSE Completed(client, s)
       /\ UNCHANGED <<serverSide, now, ops>>

\* await fetch(...) and await response.json() return: sync() throws on a
\* response that is not OK, starts the uploads when attachments are pending,
\* and completes otherwise
FetchReturns(s) ==
    LET this == client.syncs[s]
    IN /\ this.pc = "answered"
       /\ client' = IF ~ this.response.ok
                    THEN [client EXCEPT !.syncs[s] = [pc |-> "rejected"]]
                    ELSE IF client.pendingAttachments # {}
                    THEN [client EXCEPT !.syncs[s] = [@ EXCEPT !.pc = "uploading"]]
                    ELSE Completed(client, s)
       /\ UNCHANGED <<serverSide, now, ops>>

\* await fetch(...) rejects: a network error, before or after the server
\* handled the request
FetchFails(s) ==
    /\ client.syncs[s].pc \in {"sent", "answered"}
    /\ client' = [client EXCEPT !.syncs[s] = [pc |-> "rejected"]]
    /\ UNCHANGED <<serverSide, now, ops>>

\* await this.uploadAttachments() returns or throws
UploadReturns(s, ok) ==
    /\ client.syncs[s].pc = "uploading"
    /\ client' = IF ok THEN Completed(client, s)
                 ELSE [client EXCEPT !.syncs[s] = [@ EXCEPT !.pc = "rejected"]]
    /\ UNCHANGED <<serverSide, now, ops>>

QueueStep ==
    \/ \E t \in Times : QueueChange(Record(SharedId, Creator, t))
    \/ QueueDeletion(SharedId)
    \/ AttachFile(SharedId)

SendStep ==
    /\ ops < MaxOps
    /\ ops' = ops + 1
    /\ SyncSend

ServeStep == \E s \in DOMAIN client.syncs : \E ok \in BOOLEAN : Serve(s, ok)

FetchStep ==
    \E s \in DOMAIN client.syncs : FetchReturns(s) \/ FetchFails(s)

UploadStep ==
    \E s \in DOMAIN client.syncs : \E ok \in BOOLEAN : UploadReturns(s, ok)

NextClient ==
    QueueStep \/ SendStep \/ ServeStep \/ FetchStep \/ UploadStep \/ Tick

SpecClient == Init /\ [][NextClient]_vars

\* ------------- MySQLAdapter.applyRecords: a transaction on a pooled connection
\* records and changeLog stand for the committed rows of the records table
\* and of the changes table; connection.tx holds the rows as the open
\* transaction sees them

\* what the steps of MySQLAdapter.applyRecords leave alone
untouchedByMySQL ==
    <<adapter, resolveConflict, deletedRecords, changeTable, now, writes,
      last, copies, calls, trace, client, http>>

\* applyRecords(records, deviceId) up to connection.beginTransaction():
\* nothing to do for an empty list; else a connection is taken from the
\* pool, unless initialize() or getConnection() throws
TakeConnection(batch, deviceId, ok) ==
    /\ connection.pc = "none"
    /\ connection' =
           IF batch = << >>
           THEN [pc |-> "returned", batch |-> batch, deviceId |-> deviceId,
                 before |-> [records |-> records, changeLog |-> changeLog],
                 acquired |-> 0, released |-> 0]
           ELSE IF ~ ok
           THEN [pc |-> "rejected", batch |-> batch, deviceId |-> deviceId,
                 before |-> [records |-> records, changeLog |-> changeLog],
                 acquired |-> 0, released |-> 0, error |-> "getConnection"]
           ELSE [pc |-> "beginTransaction", batch |-> batch,
                 deviceId |-> deviceId,
                 before |-> [records |-> records, changeLog |-> changeLog],
                 acquired |-> 1, released |-> 0]
    /\ UNCHANGED <<untouchedByMySQL, records, changeLog>>

\* await connection.beginTransaction(): when it throws, the finally block
\* releases the connection
BeginTransaction(ok) ==
    /\ connection.pc = "beginTransaction"
    /\ connection' =
           IF ok
           THEN [connection EXCEPT !.pc = "upsert"] @@
                    [tx |-> [records |-> records, changeLog |-> changeLog],
                     timestamp |-> now, k |-> 1, failed |-> "none"]
           ELSE [connection EXCEPT !.pc = "rejected",
                                   !.released = @ + 1] @@
                    [error |-> "beginTransaction"]
    /\ UNCHANGED <<untouchedByMySQL, records, changeLog>>

\* (an upsert that is committed at once, outside the transaction)
UpsertAutoCommitted(ok) ==
    LET record == connection.batch[connection.k]
    IN /\ connection.pc = "upsert"
       /\ connection' =
              IF ok
              THEN [connection EXCEPT
                       !.pc = "log",
                       !.tx.records = [@ EXCEPT ![record.id] = record]]
              ELSE [connection EXCEPT !.pc = "rollback", !.failed = "upsert"]
       /\ records' = IF ok THEN [records EXCEPT ![record.id] = record]
                     ELSE records
       /\ UNCHANGED <<untouchedByMySQL, changeLog>>

\* INSERT INTO recordsTable ... ON DUPLICATE KEY UPDATE, for the next record
Upsert(ok) ==
    LET record == connection.batch[connection.k]
    IN /\ connection.pc = "upsert"
       /\ connection' =
              IF ok
              THEN [connection EXCEPT
                       !.pc = "log",
                       !.tx.records = [@ EXCEPT ![record.id] = record]]
              ELSE [connection EXCEPT !.pc = "rollback", !.failed = "upsert"]
       /\ UNCHANGED <<untouchedByMySQL, records, changeLog>>

\* INSERT INTO changesTable (record_id, device_id, timestamp), for the same
\* record; after the last record the loop ends
LogChange(ok) ==
    LET record == connection.batch[connection.k]
    IN /\ connection.pc = "log"
       /\ connection' =
              IF ok
              THEN [connection EXCEPT
                       !.pc = IF connection.k = Len(connection.batch)
                              THEN "commit" ELSE "upsert",
                       !.k = @ + 1,
                       !.tx.changeLog =
                           Append(@, [timestamp |-> connection.timestamp,
                                      recordId |-> record.id,
                                      deviceId |-> connection.deviceId])]
              ELSE [connection EXCEPT !.pc = "rollback", !.failed = "log"]
       /\ UNCHANGED <<untouchedByMySQL, records, changeLog>>

\* await connection.commit(), then the finally block releases the connection
Commit(ok) ==
    /\ connection.pc = "commit"
    /\ IF ok
       THEN /\ records' = connection.tx.records
            /\ changeLog' = connection.tx.changeLog
            /\ connection' = [connection EXCEPT !.pc = "returned",
                                                !.released = @ + 1]
       ELSE /\ connection' = [connection EXCEPT !.pc = "rollback",
                                                !.failed = "commit"]
            /\ UNCHANGED <<records, changeLog>>
    /\ UNCHANGED untouchedByMySQL

\* catch: await connection.rollback(), throw error; when rollback() throws,
\* its error takes the place of the first; the finally block releases the
\* connection in both cases
Rollback(ok) ==
    /\ connection.pc = "rollback"
    /\ connection' =
           IF ok
           THEN [connection EXCEPT !.pc = "rejected", !.released = @ + 1,
                                   !.tx = connection.before] @@
                    [error |-> connection.failed]
           ELSE [connection EXCEPT !.pc = "rejected", !.released = @ + 1] @@
                    [error |-> "rollback"]
    /\ UNCHANGED <<untouchedByMySQL, records, changeLog>>

\* a caller calls applyRecords
MySQLCallStep ==
    /\ ops < MaxOps
    /\ ops' = ops + 1
    /\ \E batch \in Batches(Creator) : \E ok \in BOOLEAN :
           TakeConnection(batch, Creator, ok)

\* the step of the call that comes next, which succeeds or throws
MySQLStep ==
    /\ \E ok \in BOOLEAN :
           \/ BeginTransaction(ok)
           \/ Upsert(ok)
           \/ LogChange(ok)
           \/ Commit(ok)
           \/ Rollback(ok)
    /\ UNCHANGED ops

\* the caller has the outcome of the call
MySQLReturn ==
    /\ connection.pc \in {"returned", "rejected"}
    /\ connection' = NoConnection
    /\ UNCHANGED <<untouchedByMySQL, records, changeLog, ops>>

InitMySQL ==
    /\ InitAdapter("MySQLAdapter", {"default"})
    /\ copies = NoCopies

NextMySQL == MySQLCallStep \/ MySQLStep \/ MySQLReturn \/ Tick

SpecMySQL == InitMySQL /\ [][NextMySQL]_vars

\* ------------- sync requests that carry deletions
\* the lists of ids a client may have queued with queueDeletion
DeletionLists ==
    {SelectSeq(IdList, LAMBDA id : id \in S) : S \in SUBSET Ids}

\* a device sends a sync request with no record or one record, and with the
\* deletions it has queued
DeletingSyncStep ==
    /\ Idle
    /\ ops < MaxOps
    /\ ops' = ops + 1
    /\ \E d \in Devices : \E batch \in Batches(d) : \E t \in Checkpoints :
         \E deletedIds \in DeletionLists :
           /\ Len(batch) <= 1
           /\ LET payload == [records |-> batch, deletedIds |-> deletedIds,
                              deviceId |-> d, lastSyncAt |-> t]
              IN \E throwsFor \in ThrowChoices(payload) :
                     ApplyChanges(payload, throwsFor, FALSE)

NextDeletions == DeletingSyncStep \/ Return

SpecDeletions == Init /\ [][NextDeletions]_vars

\* ------------- isSuccessor on pairs of version vectors
\* isSuccessor is applied to two vectors, and to the same two exchanged
SuccessorStep ==
    /\ Idle
    /\ ops < MaxOps
    /\ ops' = ops + 1
    /\ \E vector1, vector2 \in VersionVectors :
         last' = [op |-> "isSuccessor",
                  vector1 |-> vector1,
                  vector2 |-> vector2,
                  result |-> isSuccessor(vector1, vector2),
                  exchanged |-> isSuccessor(vector2, vector1)]
    /\ UNCHANGED <<outside, copies, adapter, resolveConflict, records,
                   deletedRecords, changeLog, changeTable, now, writes>>

NextSuccessor == SuccessorStep \/ Return

SpecSuccessor == InitVectors /\ [][NextSuccessor]_vars

\* ------------------------------------------- a device and its checkpoint
\* the device whose SyncClient keeps the checkpoint
Reader == "B"

\* the device sends sync() with the checkpoint of its last successful sync
\* and nothing pending; `trace` lists what the other devices have stored
\* since that sync
ReaderSyncStep ==
    /\ Idle
    /\ client.lastSyncAt = NaT \/ trace # << >>
    /\ UNCHANGED ops
    /\ ApplyChanges([records |-> << >>, deviceId |-> Reader,
                     lastSyncAt |-> client.lastSyncAt], {}, FALSE)

\* this.lastSyncAt = result.syncTimestamp
ReaderReceives ==
    /\ last.op = "applyChanges"
    /\ last.payload.deviceId = Reader
    /\ client' = [client EXCEPT !.lastSyncAt = last.result.syncTimestamp]
    /\ trace' = << >>
    /\ last' = [op |-> "none"]
    /\ UNCHANGED <<calls, http, connection, copies, adapter, resolveConflict,
                   records, deletedRecords, changeLog, changeTable, now, ops,
                   writes>>

\* another device sends a sync request
WriterSyncStep ==
    /\ Idle
    /\ ops < MaxOps
    /\ ops' = ops + 1
    /\ \E d \in Devices \ {Reader} : \E batch \in Batches(d) :
       \E t \in Checkpoints :
           ApplyChanges([records |-> batch, deviceId |-> d, lastSyncAt |-> t],
                        {}, FALSE)

\* the other device takes its result
WriterReceives ==
    /\ last.op = "applyChanges"
    /\ last.payload.deviceId # Reader
    /\ trace' = Append(trace, [deviceId |-> last.payload.deviceId,
                               stored |-> last.resolvedRecords])
    /\ last' = [op |-> "none"]
    /\ UNCHANGED <<calls, client, http, connection, copies, adapter,
                   resolveConflict, records, deletedRecords, changeLog,
                   changeTable, now, ops, writes>>

InitCheckpoint ==
    /\ \E kind \in {"MemoryAdapter", "ChangeTrackingAdapter"} :
           InitAdapter(kind, {"default"})
    /\ copies = NoCopies

NextCheckpoint ==
    ReaderSyncStep \/ ReaderReceives \/ WriterSyncStep \/ WriterReceives \/ Tick

\* one device syncs from its checkpoint while the others write, the
\* requests served one after the other
SpecCheckpoint == InitCheckpoint /\ [][NextCheckpoint]_vars

\* ------------------------------------- a checkpoint taken during overlap
\* the calls of the device that keeps the checkpoint, and of the others
ReaderCall == 1
WriterCall == 2

\* the entries of `trace` that call c made with operation op
CallsMade(c, op) ==
    {i \in DOMAIN trace : trace[i].call = c /\ trace[i].op = op}

\* the device sends sync() with its checkpoint and nothing pending, once and
\* then once more
ReaderCallStep ==
    /\ Cardinality(CallsMade(ReaderCall, "getChangesSince")) < 2
    /\ ApplyChangesRead(ReaderCall,
                        [records |-> << >>, deviceId |-> Reader,
                         lastSyncAt |-> client.lastSyncAt], {})

\* another device, having synced at time 0, sends a sync request with one
\* record
WriterCallStep ==
    /\ Cardinality(CallsMade(WriterCall, "getChangesSince")) < MaxOps
    /\ \E d \in Devices \ {Reader} : \E r \in ClientRecords(d) :
           ApplyChangesRead(WriterCall,
                            [records |-> <<r>>, deviceId |-> d,
                             lastSyncAt |-> 0], {})

\* this.lastSyncAt = result.syncTimestamp
ReaderTakes ==
    /\ calls[ReaderCall].pc = "returned"
    /\ client' = [client EXCEPT
                      !.lastSyncAt = calls[ReaderCall].result.syncTimestamp]
    /\ calls' = [calls EXCEPT ![ReaderCall] = [pc |-> "idle"]]
    /\ UNCHANGED <<trace, http, connection, copies, adapter, resolveConflict,
                   records, deletedRecords, changeLog, changeTable, now, ops,
                   writes, last>>

\* the other device takes its result
WriterTakes ==
    /\ calls[WriterCall].pc = "returned"
    /\ calls' = [calls EXCEPT ![WriterCall] = [pc |-> "idle"]]
    /\ UNCHANGED <<trace, client, http, connection, copies, adapter,
                   resolveConflict, records, deletedRecords, changeLog,
                   changeTable, now, ops, writes, last>>

NextInterleaved ==
    \/ ReaderCallStep
    \/ WriterCallStep
    \/ CommitStep
    \/ ReaderTakes
    \/ WriterTakes
    \/ Tick

\* one device syncs from its checkpoint while the calls of the others
\* overlap with its own
SpecInterleaved == InitCheckpoint /\ [][NextInterleaved]_vars

\* ------------------------------------------ the change log, never pruned
\* trackChange without its call of pruneChangeTable: the entry is pushed and
\* the table is left as it is
PushChange(table, recordId, deviceId, timestamp, operation) ==
    Append(table, [recordId |-> recordId,
                   deviceId |-> deviceId,
                   timestamp |-> timestamp,
                   operation |-> operation])

RECURSIVE UnprunedChanges(_, _, _, _)
\* the entries applyRecords(batch, deviceId) pushes, added to a table that is
\* never pruned
UnprunedChanges(recs, table, batch, deviceId) ==
    IF batch = << >> THEN table
    ELSE LET record == Head(batch)
             operation == IF recs[record.id] # Absent THEN "update" ELSE "create"
         IN UnprunedChanges([recs EXCEPT ![record.id] = record],
                            PushChange(table, record.id, deviceId,
                                       record.updatedAt, operation),
                            Tail(batch), deviceId)

\* adapter.applyRecords(batch, deviceId); `changeLog` keeps the table of an
\* adapter that makes the same writes and never prunes
LoggedApplyRecords(batch, deviceId) ==
    LET after == TrackingApplyRecords(records, changeTable, batch, deviceId)
    IN /\ records' = after.records
       /\ changeTable' = after.changeTable
       /\ changeLog' = UnprunedChanges(records, changeLog, batch, deviceId)
       /\ writes' = CountWrites(batch, deviceId)
       /\ last' = [op |-> "applyRecords", batch |-> batch,
                   deviceId |-> deviceId, before |-> records]
       /\ UNCHANGED <<outside, copies, adapter, resolveConflict,
                      deletedRecords, now>>

\* one pass of the loop: adapter.applyRecords([updatedRecord], 'device-1'),
\* every update with a later updatedAt than the one before
LoggedUpdateStep ==
    /\ Idle
    /\ ops < Updates
    /\ ops' = ops + 1
    /\ LoggedApplyRecords(<<Record(SharedId, Creator, ops + 1)>>, Creator)

\* after the loop a device writes one record, with an early updatedAt
LoggedLateWriteStep ==
    /\ Idle
    /\ ops >= Updates
    /\ ops < Updates + MaxLate
    /\ ops' = ops + 1
    /\ \E d \in Devices : \E record \in ClientRecords(d) :
           LoggedApplyRecords(<<record>>, d)

NextUnpruned == LoggedUpdateStep \/ LoggedLateWriteStep \/ Return

\* a ChangeTrackingAdapter written to more often than its buffer holds, next
\* to the log of an adapter that never prunes
SpecUnpruned == InitTracking /\ [][NextUnpruned]_vars

\* ------------------------------------- the records a sync request carries
\* sync() up to await fetch(...): records: this.pendingChanges goes into the
\* body of the request
SyncSendsPending ==
    /\ client' = [client EXCEPT
                     !.syncs = Append(@, [pc |-> "sent",
                                          records |-> client.pendingChanges])]
    /\ UNCHANGED <<serverSide, now>>

SendPendingStep ==
    /\ ops < MaxOps
    /\ ops' = ops + 1
    /\ SyncSendsPending

QueueChangeStep ==
    \E id \in Ids : \E t \in Times : QueueChange(Record(id, Creator, t))

NextQueue == QueueChangeStep \/ SendPendingStep \/ ServeStep \/ FetchStep

\* a SyncClient whose application queues records while sync() calls are
\* under way
SpecQueue == Init /\ [][NextQueue]_vars

\* ------------------------------------------------------------- claims
\* the call that has just returned, when it is an applyChanges
SyncDone == last.op = "applyChanges"

\* C1: with the default resolver and no deletion, the updatedAt of the
\* stored version of a record never decreases from one stored instance to
\* the next.
C1_UpdatedAtNeverDecreases ==
    [][resolveConflict = "default" =>
         \A id \in Ids :
             (records[id] # Absent /\ records'[id] # Absent)
                 => records'[id].updatedAt >= records[id].updatedAt]_vars

\* C2: a payload applied a second time with the same checkpoint leaves the
\* live records as the first application left them and reports no conflict
\* (default resolver).
C2_ReplayIsIdempotent ==
    (SyncDone /\ last.repeated /\ resolveConflict = "default")
        => (records = last.before /\ last.result.conflicts = Undefined)

\* the server versions, among those read for this sync, of a client record
C3_Counterparts(clientRecord) ==
    {s \in AsSet(last.serverChanges) : s.id = clientRecord.id}

\* the positions of the batch at which the engine is to ask the resolver
C3_Asked ==
    {i \in DOMAIN last.payload.records :
        \E s \in C3_Counterparts(last.payload.records[i]) :
            s.updatedAt > last.payload.records[i].updatedAt}

\* the number of resolver calls made for the positions before or at i
C3_CallIndex(i) == Cardinality({j \in C3_Asked : j <= i})

\* what position i of the batch contributes to the applied list
C3_Contribution(i) ==
    IF i \notin C3_Asked THEN <<last.payload.records[i]>>
    ELSE IF last.calls[C3_CallIndex(i)].threw THEN << >>
    ELSE <<last.calls[C3_CallIndex(i)].resolved>>

C3_Applied[i \in 0 .. MaxBatch + 1] ==
    IF i = 0 THEN << >> ELSE C3_Applied[i - 1] \o C3_Contribution(i)

\* C3: the list passed to applyRecords holds, per client record, the record
\* itself when no server counterpart was read or the counterpart is not
\* strictly newer, and the resolver's output when it is strictly newer; the
\* resolver is called for these records only, with (server, client).
C3_AppliedSetPerRecord ==
    SyncDone =>
        /\ Len(last.calls) = Cardinality(C3_Asked)
        /\ \A i \in C3_Asked :
             /\ last.calls[C3_CallIndex(i)].incoming = last.payload.records[i]
             /\ last.calls[C3_CallIndex(i)].existing
                    \in C3_Counterparts(last.payload.records[i])
        /\ last.resolvedRecords = C3_Applied[Len(last.payload.records)]
        /\ resolveConflict = "default" =>
             \A k \in DOMAIN last.calls :
                 /\ ~ last.calls[k].threw
                 /\ last.calls[k].resolved =
                        defaultConflictResolver(last.calls[k].existing,
                                                last.calls[k].incoming)

\* a sync of two records: the resolver answered for one, and the other was
\* accepted although the server holds a version with the same timestamp
C3_Witness ==
    /\ SyncDone
    /\ Len(last.payload.records) = 2
    /\ Len(last.calls) = 1
    /\ ~ last.calls[1].threw
    /\ \E i \in DOMAIN last.payload.records :
         /\ i \notin C3_Asked
         /\ \E s \in C3_Counterparts(last.payload.records[i]) :
                s.updatedAt = last.payload.records[i].updatedAt

\* the resolver calls of the last sync that threw
C4_Thrown == {k \in DOMAIN last.calls : last.calls[k].threw}

\* C4: a throwing resolver does not fail the sync: the record is left out of
\* the applied list, the result holds one conflict entry {recordId, client
\* version, server version} for it, the other records of the batch are
\* applied, and conflicts is undefined exactly when no call threw.
C4_ResolverFailureIsAConflict ==
    SyncDone =>
        LET conflicts == IF last.result.conflicts = Undefined THEN << >>
                         ELSE CHOOSE c \in last.result.conflicts : TRUE
            applied == {r.id : r \in Range(last.resolvedRecords)}
        IN /\ (last.result.conflicts = Undefined) <=> (C4_Thrown = {})
           /\ Len(conflicts) = Cardinality(C4_Thrown)
           /\ \A k \in C4_Thrown :
                /\ last.calls[k].incoming.id \notin applied
                /\ records[last.calls[k].incoming.id]
                       = last.before[last.calls[k].incoming.id]
                /\ Cardinality({j \in DOMAIN conflicts :
                       conflicts[j] =
                           [recordId |-> last.calls[k].incoming.id,
                            localVersion |-> last.calls[k].incoming,
                            remoteVersion |-> last.calls[k].existing]}) = 1
           /\ \A i \in DOMAIN last.payload.records :
                (\A k \in C4_Thrown :
                     last.calls[k].incoming # last.payload.records[i])
                    => /\ last.payload.records[i].id \in applied
                       /\ records[last.payload.records[i].id]
                              \in Range(last.resolvedRecords)

\* the resolver threw for one record of a batch and answered for the other
C4_Witness ==
    /\ SyncDone
    /\ Len(last.payload.records) = 2
    /\ Cardinality(C4_Thrown) = 1
    /\ Len(last.resolvedRecords) = 1
    /\ Len(last.calls) = 2

\* the call that has just returned, when it is a resolver call
Resolved == last.op = "resolve"

\* C5: the default resolver returns the incoming version exactly when its
\* updatedAt is strictly greater, and the existing version otherwise; for
\* distinct timestamps the greater one wins whichever role it is given, and a
\* tie returns the existing version.
C5_DefaultResolverIsLWW ==
    Resolved =>
        /\ (last.resolved = last.incoming)
               <=> (last.incoming.updatedAt > last.existing.updatedAt)
        /\ (last.resolved = last.existing)
               <=> ~ (last.incoming.updatedAt > last.existing.updatedAt)
        /\ last.incoming.updatedAt # last.existing.updatedAt
               => /\ last.resolved = last.exchanged
                  /\ last.resolved.updatedAt >= last.incoming.updatedAt
                  /\ last.resolved.updatedAt >= last.existing.updatedAt
        /\ last.incoming.updatedAt = last.existing.updatedAt
               => last.resolved = last.existing /\ last.exchanged = last.incoming

\* a tie between the versions of two devices went to the existing one
C5_Witness ==
    /\ Resolved
    /\ last.incoming.updatedAt = last.existing.updatedAt
    /\ last.incoming.data # last.existing.data
    /\ last.resolved = last.existing

\* every device has synced its copy
AllSynced == \A d \in Devices : Synced(d)

\* C6: once the creator and then every other device, in any order, have
\* synced their copy of the record with a checkpoint not later than the
\* original's updatedAt, the stored version is the copy whose updatedAt is
\* strictly the greatest.
C6_LastWriteWins ==
    AllSynced =>
        \A d \in Devices \ {Creator} :
            (\A e \in Devices \ {Creator, d} :
                 copies[d].updatedAt > copies[e].updatedAt)
                => records[SharedId] = copies[d]

\* C7: getChangesSince(t, d) returns no record whose most recent change, made
\* after t, is a write of d itself (the stored version of a record is its
\* most recent change, and its data names the device that wrote it).
C7_DeviceExclusion ==
    \A t \in Checkpoints : \A d \in Devices :
        \A r \in AsSet(GetChangesSince(t, d)) :
            ~ (r.data = d /\ DateGT(r.updatedAt, t))

\* the live, not tombstoned ids with a change-table entry newer than t that
\* d did not write
C8_Expected(t, d) ==
    {id \in Ids :
        /\ records[id] # Absent
        /\ id \notin deletedRecords
        /\ \E k \in DOMAIN changeTable :
             /\ changeTable[k].recordId = id
             /\ t # NaT
             /\ changeTable[k].timestamp > t
             /\ changeTable[k].deviceId # d}

C8_Returned(t, d) ==
    TrackingGetChangesSince(records, deletedRecords, changeTable, t, d)

\* C8: ChangeTrackingAdapter.getChangesSince(t, d) returns, once each, the
\* stored versions of exactly the live and not tombstoned ids that have an
\* entry newer than t written by another device than d.
C8_ChangesSinceIsExact ==
    \A t \in Checkpoints : \A d \in Devices :
        LET returned == C8_Returned(t, d)
            expected == C8_Expected(t, d)
        IN /\ Range(returned) = {records[id] : id \in expected}
           /\ Len(returned) = Cardinality(expected)

\* one record is returned to a device while another, live and changed after
\* the checkpoint by that device only, is not
C8_Witness ==
    /\ adapter = "ChangeTrackingAdapter"
    /\ \E t \in Times : \E d \in Devices :
         /\ Len(C8_Returned(t, d)) = 1
         /\ \E id \in Ids \ C8_Expected(t, d) :
              /\ records[id] # Absent
              /\ id \notin deletedRecords
              /\ \E k \in DOMAIN changeTable :
                   /\ changeTable[k].recordId = id
                   /\ changeTable[k].timestamp > t
              /\ \A k \in DOMAIN changeTable :
                   changeTable[k].recordId = id => changeTable[k].deviceId = d

\* the call that has just returned, when it is an applyRecords of one record
Written == last.op = "applyRecords" /\ Len(last.batch) = 1

\* the version vector stored for id in recs, empty when there is no record
StoredVector(recs, id) ==
    IF recs[id] # Absent THEN recs[id].versionVector ELSE NoVector

\* C9: after a write of device d to a record, the stored vector's entry for d
\* is the number of writes d has made to the record, one more than before the
\* write, and no entry of the vector is lower than before the write.
C9_VectorCountsWrites ==
    Written =>
        LET id == last.batch[1].id
            d == last.deviceId
            before == StoredVector(last.before, id)
            after == StoredVector(records, id)
        IN /\ records[id] # Absent
           /\ Counter(after, d) = writes[id][d]
           /\ Counter(after, d) = Counter(before, d) + 1
           /\ \A e \in Devices : Counter(after, e) >= Counter(before, e)
           /\ \A e \in Devices : Counter(after, e) = writes[id][e]

\* the third write to a record: the second of its device, after one of
\* another device
C9_Witness ==
    /\ Written
    /\ adapter = "VersionedMemoryAdapter"
    /\ writes[last.batch[1].id][last.deviceId] = 2
    /\ \E e \in Devices \ {last.deviceId} : writes[last.batch[1].id][e] = 1

\* C10: when the incoming write is not concurrent with the stored version,
\* one vector being a successor of the other, the stored value is the
\* successor's whatever the two updatedAt, and the stored vector is the
\* pointwise maximum of the two.
C10_SuccessorIsKept ==
    (Written /\ last.before[last.batch[1].id] # Absent) =>
        LET incoming == last.batch[1]
            stored == last.before[incoming.id]
            incomingVector == Increment(stored.versionVector, last.deviceId)
            successor ==
                IF isSuccessor(incomingVector, stored.versionVector)
                THEN incoming ELSE stored
        IN (\/ isSuccessor(incomingVector, stored.versionVector)
            \/ isSuccessor(stored.versionVector, incomingVector))
               => /\ records[incoming.id].data = successor.data
                  /\ records[incoming.id].updatedAt = successor.updatedAt
                  /\ records[incoming.id].versionVector
                         = MergeVectors(stored.versionVector, incomingVector)

\* the stored version before the write that has just returned, or Absent
C11_Stored == last.before[last.batch[1].id]

\* the write that has just returned found a stored version, and hasConflict
\* answered that the two are concurrent
C11_Concurrent ==
    /\ Written
    /\ adapter = "VersionedMemoryAdapter"
    /\ C11_Stored # Absent
    /\ LET pair == VersionedPair(C11_Stored, last.batch[1], last.deviceId)
       IN hasConflict(pair.existing, pair.versioned)

\* C11: when the stored version is concurrent with the incoming one per
\* hasConflict, the stored value after the write is the version with the
\* greater updatedAt, the already stored one on a tie, and the stored vector
\* is the pointwise maximum of the stored vector and of the incoming vector,
\* which is the stored vector with the writer's counter incremented.
C11_ConcurrentWritesResolveByTime ==
    C11_Concurrent =>
        LET incoming == last.batch[1]
            stored == C11_Stored
            kept == IF incoming.updatedAt > stored.updatedAt
                    THEN incoming ELSE stored
            after == records[incoming.id]
            d == last.deviceId
        IN /\ after.data = kept.data
           /\ after.updatedAt = kept.updatedAt
           /\ \A e \in Devices :
                Counter(after.versionVector, e) =
                    IF e = d THEN Counter(stored.versionVector, e) + 1
                    ELSE Counter(stored.versionVector, e)

\* a device writes, with the timestamp of the stored version, a record that
\* another device wrote: the stored value stays
C11_Witness ==
    /\ C11_Concurrent
    /\ C11_Stored.data # last.deviceId
    /\ C11_Stored.updatedAt = last.batch[1].updatedAt
    /\ records[last.batch[1].id].data = C11_Stored.data

\* C12: arrival-order independence. Whatever devices have written the shared
\* record so far (each once, with pairwise distinct updatedAt) and in whatever
\* order the writes were applied to the VersionedMemoryAdapter, the stored
\* data and updatedAt are those of the write with the greatest updatedAt and
\* the version vector maps every writing device to exactly 1 (and no other
\* device to anything): the state depends on the set of writes only.
C12_ArrivalOrderIndependence ==
    (adapter = "VersionedMemoryAdapter" /\ Arrived # {}) =>
        LET latest == CHOOSE d \in Arrived :
                          \A e \in Arrived :
                              copies[e].updatedAt <= copies[d].updatedAt
            stored == records[SharedId]
        IN /\ stored # Absent
           /\ stored.data = copies[latest].data
           /\ stored.updatedAt = copies[latest].updatedAt
           /\ \A d \in Devices :
                 Counter(stored.versionVector, d) = IF d \in Arrived THEN 1 ELSE 0

\* every device has written, the oldest version arrived last and the newest
\* arrived neither first nor last
C12_Witness ==
    /\ Arrived = Devices
    /\ last.op = "applyRecords"
    /\ last.batch[1].updatedAt = 0
    /\ last.before[SharedId].updatedAt > last.batch[1].updatedAt
    /\ records[SharedId].updatedAt = Cardinality(Devices) - 1

\* vector1 is a successor of vector2: no device's counter is smaller and some
\* device's counter is greater (a device without an entry counts as 0)
C13_Succeeds(vector1, vector2) ==
    /\ \A d \in Devices : Counter(vector1, d) >= Counter(vector2, d)
    /\ \E d \in Devices : Counter(vector1, d) > Counter(vector2, d)

\* C13: conflict symmetry. For every pair of version vectors,
\* hasConflict(a, b) = hasConflict(b, a), and hasConflict(a, b) is true
\* exactly when neither vector is a successor of the other.
C13_ConflictIsSymmetric ==
    last.op = "hasConflict" =>
        /\ last.result = last.exchanged
        /\ last.result <=> (/\ ~ C13_Succeeds(last.vector1, last.vector2)
                            /\ ~ C13_Succeeds(last.vector2, last.vector1))

\* two vectors, each ahead of the other for one device, are in conflict
C13_Witness ==
    /\ last.op = "hasConflict"
    /\ last.result
    /\ \E d, e \in Devices :
         /\ Counter(last.vector1, d) > Counter(last.vector2, d)
         /\ Counter(last.vector2, e) > Counter(last.vector1, e)

\* the entry that the write just applied logs for record: create when the id
\* had no live record, update otherwise
WriteEntry(record) ==
    [recordId |-> record.id,
     deviceId |-> last.deviceId,
     timestamp |-> record.updatedAt,
     operation |-> IF last.before[record.id] # Absent THEN "update" ELSE "create"]

\* the entry that the deleteRecord just applied logs
DeleteEntry ==
    [recordId |-> last.recordId,
     deviceId |-> last.deviceId,
     timestamp |-> now,
     operation |-> "delete"]

\* C14: pruning safety. After a write to a ChangeTrackingAdapter (applyRecords
\* or deleteRecord), however many entries pruning has dropped,
\* getChangeHistory(id) of each id just written contains the entry of that
\* write, which is the most recent write of the id, and the live records are
\* those the writes produce, whatever pruning did: a written record is stored
\* as written, a deleted one is gone, the others are as before.
C14_PruningKeepsLastWrite ==
    adapter = "ChangeTrackingAdapter" =>
        /\ last.op = "applyRecords" =>
             /\ \A k \in DOMAIN last.batch :
                  /\ WriteEntry(last.batch[k]) \in
                         Range(getChangeHistory(changeTable, last.batch[k].id))
                  /\ records[last.batch[k].id] = last.batch[k]
             /\ \A id \in Ids \ {last.batch[k].id : k \in DOMAIN last.batch} :
                  records[id] = last.before[id]
        /\ last.op = "deleteRecord" =>
             /\ DeleteEntry \in Range(getChangeHistory(changeTable, last.recordId))
             /\ \A id \in Ids :
                  records[id] = IF id = last.recordId THEN Absent
                                ELSE last.before[id]

\* a write of one record, or a deleteRecord, has just been applied to a
\* ChangeTrackingAdapter: trackChange ran once
C15_OneAppend ==
    /\ adapter = "ChangeTrackingAdapter"
    /\ \/ last.op = "applyRecords" /\ Len(last.batch) = 1
       \/ last.op = "deleteRecord"

\* the entry that call appended
C15_Entry ==
    IF last.op = "applyRecords" THEN WriteEntry(last.batch[1]) ELSE DeleteEntry

\* `retained` is what the policy keeps of `appended`, "most recent" meaning
\* the greatest entry timestamp: no entry is invented or kept twice; every id
\* keeps an entry with its greatest timestamp; an entry that was dropped has
\* at least bufferSize other entries at least as recent; an entry that was
\* kept has the greatest timestamp of its id or fewer than bufferSize
\* entries more recent than it; so the length is bounded.
C15_Policy(appended, retained) ==
    LET ids == {appended[i].recordId : i \in DOMAIN appended}
        latest(e) == \A j \in DOMAIN appended :
                         appended[j].recordId = e.recordId
                             => appended[j].timestamp <= e.timestamp
        asRecent(i) == {j \in DOMAIN appended \ {i} :
                           appended[j].timestamp >= appended[i].timestamp}
        moreRecent(i) == {j \in DOMAIN appended :
                             appended[j].timestamp > appended[i].timestamp}
    IN /\ Range(retained) \subseteq Range(appended)
       /\ Cardinality(Range(retained)) = Len(retained)
       /\ \A id \in ids :
            \E e \in Range(retained) : e.recordId = id /\ latest(e)
       /\ \A i \in DOMAIN appended :
            IF appended[i] \in Range(retained)
            THEN latest(appended[i]) \/ Cardinality(moreRecent(i)) < bufferSize
            ELSE Cardinality(asRecent(i)) >= bufferSize
       /\ Len(retained) <= Cardinality(ids) + bufferSize

\* C15: pruning policy. After every append to the change log of a
\* ChangeTrackingAdapter the retained log is exactly the union of the most
\* recent entry of each record id and the bufferSize (100) most recent entries
\* overall, recency being the entry's timestamp as pruneChangeTable orders
\* them; so its length never exceeds the number of distinct ids plus 100.
C15_PruningPolicy ==
    [][C15_OneAppend' =>
           C15_Policy(Append(changeTable, C15_Entry'), changeTable')]_vars

\* pruning has dropped entries, and keeps an entry of a second record that is
\* older than every entry of the buffer
C15_Witness ==
    /\ C15_OneAppend
    /\ ops > Updates
    /\ Len(changeTable) = bufferSize + 1
    /\ \E i \in DOMAIN changeTable :
         /\ changeTable[i].recordId # SharedId
         /\ \A j \in DOMAIN changeTable \ {i} :
              changeTable[j].timestamp > changeTable[i].timestamp

\* a write operation has just been applied to a ChangeTrackingAdapter
C16_Written ==
    /\ adapter = "ChangeTrackingAdapter"
    /\ last.op \in {"applyRecords", "deleteRecord"}

\* the number of entries that operation is to add: one per record written,
\* one for a deleteRecord
C16_Entries == IF last.op = "applyRecords" THEN Len(last.batch) ELSE 1

\* C16: the change log holds one entry per write operation. Each record
\* written by applyRecords and each deleteRecord adds exactly one entry and,
\* while the writes do not exceed the buffer size, removes none: the log grows
\* by the number of writes of the call, so its length is the number of writes.
C16_OneEntryPerWrite ==
    [][(C16_Written' /\ Len(changeTable) + C16_Entries' <= bufferSize) =>
           Len(changeTable') = Len(changeTable) + C16_Entries']_vars

\* C17: on a ChangeTrackingAdapter, for every record id with an entry in the
\* change log, the first (oldest) entry of getChangeHistory(id) has operation
\* create; and a record written to an id with no live record is logged as
\* create, one written to a live id as update.
C17_HistoryStartsWithCreate ==
    adapter = "ChangeTrackingAdapter" =>
        /\ \A id \in Ids :
             LET history == getChangeHistory(changeTable, id)
             IN history # << >> => history[1].operation = "create"
        /\ last.op = "applyRecords" =>
             \A k \in DOMAIN last.batch :
                 WriteEntry(last.batch[k]) \in Range(changeTable)

\* C18: getChangeHistory(recordId) lists the retained entries of the record in
\* the order in which the writes were applied, oldest first, whatever the
\* updatedAt of the records written: the entry of a write that has just been
\* logged comes last, after the entries that were there before, which keep
\* their order.
C18_HistoryInApplicationOrder ==
    [][(/\ C15_OneAppend'
        /\ C15_Entry' \notin Range(changeTable)
        /\ C15_Entry' \in Range(changeTable')) =>
           LET entry == C15_Entry'
               earlier == getChangeHistory(changeTable, entry.recordId)
               history == getChangeHistory(changeTable', entry.recordId)
           IN /\ history[Len(history)] = entry
              /\ SubSeq(history, 1, Len(history) - 1) =
                     SelectSeq(earlier, LAMBDA e : e \in Range(changeTable'))]_vars

\* deleteRecord(id, d) was called and id has not been written since
C19_Deleted(id) == id \in deletedRecords /\ records[id] = Absent

\* C19: after deleteRecord(id, d), and as long as id is not written again,
\* the record is absent from getAllRecords and from getChangesSince(t, d') for
\* every timestamp t and device d', and the change log of a
\* ChangeTrackingAdapter keeps a delete entry for id.
C19_DeletedStaysDeleted ==
    \A id \in Ids :
        C19_Deleted(id) =>
            /\ \A r \in LiveRecords(records) : r.id # id
            /\ \A t \in Checkpoints : \A d \in Devices :
                 \A r \in AsSet(GetChangesSince(t, d)) : r.id # id
            /\ adapter = "ChangeTrackingAdapter" =>
                 \E i \in DOMAIN changeTable :
                     /\ changeTable[i].recordId = id
                     /\ changeTable[i].operation = "delete"

\* the page sizes and the offsets asked for: up to one more than there are
\* records to return
C20_Limits == 1 .. Cardinality(Ids) + 1

C20_Offsets == 0 .. Cardinality(Ids) + 1

\* the pages at offsets 0, limit, ..., (k - 1) * limit, one after the other
C20_Pages(t, d, limit) ==
    LET F[k \in 0 .. Cardinality(Ids) + 1] ==
            IF k = 0 THEN << >>
            ELSE F[k - 1] \o getChangesSincePaginated(t, d, limit, (k - 1) * limit)
    IN F

\* C20: in any state of a ChangeTrackingAdapter, for every timestamp t, device
\* d, limit and offset, getChangesSincePaginated(t, d, limit, offset) is the
\* list of the elements [offset, offset + limit) of getChangesSince(t, d); the
\* pages at offsets 0, limit, 2 * limit, ... have no record in common, and put
\* one after the other they are getChangesSince(t, d).
C20_PagesPartitionChanges ==
    adapter = "ChangeTrackingAdapter" =>
        \A t \in Checkpoints : \A d \in Devices : \A limit \in C20_Limits :
            LET all == GetChangesSince(t, d)
                page(offset) == getChangesSincePaginated(t, d, limit, offset)
            IN /\ \A offset \in C20_Offsets :
                    /\ Len(page(offset)) =
                           IF Len(all) - offset < 0 THEN 0
                           ELSE IF Len(all) - offset < limit
                                THEN Len(all) - offset ELSE limit
                    /\ \A i \in DOMAIN page(offset) :
                           page(offset)[i] = all[offset + i]
               /\ \A j, k \in 0 .. Cardinality(Ids) :
                    j # k => Range(page(j * limit)) \cap Range(page(k * limit)) = {}
               /\ C20_Pages(t, d, limit)[Cardinality(Ids) + 1] = all

\* two records changed, returned on two pages of one record each
C20_Witness ==
    /\ adapter = "ChangeTrackingAdapter"
    /\ \E t \in Checkpoints : \E d \in Devices :
         /\ Len(GetChangesSince(t, d)) = 2
         /\ Len(getChangesSincePaginated(t, d, 1, 0)) = 1
         /\ Len(getChangesSincePaginated(t, d, 1, 1)) = 1
         /\ getChangesSincePaginated(t, d, 1, 0) # getChangesSincePaginated(t, d, 1, 1)

\* the ids of the records of a page, in the order of the page
C21_PageIds(t, d, limit, offset) ==
    LET page == getChangesSincePaginated(t, d, limit, offset)
    IN [i \in DOMAIN page |-> page[i].id]

\* the ids of the records getChangesSince(t, d) returns
C21_ResultIds(t, d) ==
    LET all == TrackingGetChangesSince(records, deletedRecords, changeTable, t, d)
    IN {all[i].id : i \in DOMAIN all}

\* C21: page boundaries are stable with respect to record identity. When a
\* write is applied to a ChangeTrackingAdapter between two
\* getChangesSincePaginated requests with the same t and d, and it writes only
\* records that are already part of the result, every page holds the same
\* records after the write as before it, at every offset and for every limit:
\* successive pages neither repeat nor skip a record.
C21_PagesAreStable ==
    [][(adapter = "ChangeTrackingAdapter" /\ last'.op = "applyRecords") =>
           \A t \in Stamps : \A d \in Devices :
               {last'.batch[k].id : k \in DOMAIN last'.batch}
                       \subseteq C21_ResultIds(t, d) =>
                   \A limit \in C20_Limits : \A offset \in C20_Offsets :
                       C21_PageIds(t, d, limit, offset)' =
                           C21_PageIds(t, d, limit, offset)]_vars

\* both overlapping calls have returned
C22_BothReturned == \A c \in CallIds : calls[c].pc = "returned"

\* the call whose applyRecords ran last
C22_LastWriter == trace[Len(trace)].call

\* the ids of a batch
C22_IdsOf(batch) == {batch[k].id : k \in DOMAIN batch}

\* the record of a batch with the given id
C22_RecordOf(batch, id) == batch[CHOOSE k \in DOMAIN batch : batch[k].id = id]

\* C22: when two applyChanges calls on the same record interleave over a
\* MemoryAdapter, each call resolved against the versions the store held at
\* its own getChangesSince, and once both have returned the store holds, for
\* the record, exactly the resolved record of the call whose applyRecords ran
\* last.
C22_LastWriteDeterminesStoredValue ==
    (adapter = "MemoryAdapter" /\ C22_BothReturned) =>
        \A id \in Ids :
            (\A c \in CallIds : id \in C22_IdsOf(calls[c].payload.records)) =>
                /\ \A c \in CallIds : \A r \in AsSet(calls[c].serverChanges) :
                       r = calls[c].before[r.id]
                /\ id \in C22_IdsOf(calls[C22_LastWriter].resolvedRecords) =>
                       records[id] =
                           C22_RecordOf(calls[C22_LastWriter].resolvedRecords, id)

\* both calls read before either wrote, the call that read first wrote last,
\* and what it stored is the server version its own read returned, which
\* the other call had overwritten in between
C22_Witness ==
    /\ adapter = "MemoryAdapter"
    /\ C22_BothReturned
    /\ Len(trace) = 4
    /\ trace[2].op = "getChangesSince"
    /\ C22_LastWriter = 1
    /\ \A c \in CallIds : C22_IdsOf(calls[c].payload.records) = {SharedId}
    /\ records[SharedId] = calls[1].before[SharedId]
    /\ records[SharedId] # calls[1].payload.records[1]
    /\ Len(calls[2].resolvedRecords) = 1
    /\ records[SharedId] # calls[2].resolvedRecords[1]

\* the two calls come from different devices and submit disjoint sets of ids
C23_DisjointCalls ==
    /\ C22_BothReturned
    /\ calls[1].payload.deviceId # calls[2].payload.deviceId
    /\ C22_IdsOf(calls[1].payload.records)
           \cap C22_IdsOf(calls[2].payload.records) = {}

\* no record the store held when a call read is missing from the store
C23_NothingLost ==
    \A c \in CallIds : \A id \in Ids :
        calls[c].before[id] # Absent => records[id] # Absent

C24_ChangesAtStart(call) ==
    MemoryGetChangesSince(call.before, deletedRecords, call.beforeLog,
                          call.payload.lastSyncAt, call.payload.deviceId)

\* C24: the updatedRecords of the result of an applyChanges call is exactly
\* what getChangesSince(lastSyncAt, deviceId) returned when the call started:
\* conflict resolution and the writes that ran since do not change it, and it
\* holds the server version of a record also when the client's version of
\* that record was accepted.
C24_UpdatedRecordsAreChangesAtStart ==
    \A c \in CallIds :
        (adapter = "MemoryAdapter" /\ calls[c].pc = "returned") =>
            calls[c].result.updatedRecords = C24_ChangesAtStart(calls[c])

\* a returned call whose client record was accepted, whose result holds the
\* server version of that record, and after whose read the other call wrote
C24_Witness ==
    \E c \in CallIds :
        /\ calls[c].pc = "returned"
        /\ Len(calls[c].payload.records) = 1
        /\ calls[c].resolvedRecords = calls[c].payload.records
        /\ \E r \in calls[c].result.updatedRecords :
               r.id = calls[c].payload.records[1].id
        /\ calls[c].result.updatedRecords #
               GetChangesSince(calls[c].payload.lastSyncAt,
                               calls[c].payload.deviceId)
        /\ C22_BothReturned
        /\ trace[2].op = "getChangesSince"

\* the adapter calls a call has made, in order
C25_AdapterCalls(c) == SelectSeq(trace, LAMBDA entry : entry.call = c)

\* C25: every applyChanges call that completes has made exactly two adapter
\* calls: first getChangesSince with the lastSyncAt and deviceId of the
\* payload, then applyRecords with the whole resolved batch and the
\* requesting deviceId, also when the batch is empty or every record ended in
\* a conflict.
C25_OneReadThenOneWrite ==
    \A c \in CallIds :
        calls[c].pc = "returned" =>
            C25_AdapterCalls(c) =
                <<[call |-> c, op |-> "getChangesSince",
                   timestamp |-> calls[c].payload.lastSyncAt,
                   deviceId |-> calls[c].payload.deviceId,
                   ok |-> TRUE],
                  [call |-> c, op |-> "applyRecords",
                   records |-> calls[c].resolvedRecords,
                   deviceId |-> calls[c].payload.deviceId,
                   ok |-> TRUE]>>

\* one call returned with an empty batch, the other with its only record in
\* conflicts
C25_Witness ==
    /\ C22_BothReturned
    /\ \E c \in CallIds : calls[c].payload.records = << >>
    /\ \E c \in CallIds : /\ Len(calls[c].payload.records) = 1
                          /\ calls[c].resolvedRecords = << >>
                          /\ Len(calls[c].conflicts) = 1

\* the adapter calls of call c with the given name
C26_CallsOf(c, op) == SelectSeq(C25_AdapterCalls(c), LAMBDA entry : entry.op = op)

\* C26: adapter failures abort the sync. A call whose getChangesSince failed
\* is rejected with that error and has made no applyRecords call; a call
\* whose applyRecords failed is rejected and has no result, hence no
\* syncTimestamp; and no call makes an adapter call a second time.
C26_AdapterFailuresAbort ==
    \A c \in CallIds :
        /\ (\E i \in DOMAIN trace : /\ trace[i].call = c
                                    /\ trace[i].op = "getChangesSince"
                                    /\ ~ trace[i].ok) =>
               /\ calls[c].pc = "rejected"
               /\ calls[c].error = "getChangesSince"
               /\ C26_CallsOf(c, "applyRecords") = << >>
        /\ (\E i \in DOMAIN trace : /\ trace[i].call = c
                                    /\ trace[i].op = "applyRecords"
                                    /\ ~ trace[i].ok) =>
               /\ calls[c].pc = "rejected"
               /\ calls[c].error = "applyRecords"
               /\ "result" \notin DOMAIN calls[c]
        /\ Len(C26_CallsOf(c, "getChangesSince")) <= 1
        /\ Len(C26_CallsOf(c, "applyRecords")) <= 1

\* one call was rejected at its read and the other at its write, after which
\* nothing more can happen
C26_Witness ==
    /\ calls[1].pc = "rejected" /\ calls[1].error = "getChangesSince"
    /\ calls[2].pc = "rejected" /\ calls[2].error = "applyRecords"
    /\ Len(trace) = 3
    /\ ~ ENABLED NextFailing

\* C27: a sync request with a missing credential, an invalid credential or a
\* missing deviceId is rejected before any adapter call: with no key
\* authenticate answers 401 and with a key the engine does not accept 403,
\* neither calling the next handler; with a missing deviceId handleSync
\* answers 400 without calling applyChanges; in all three cases the store is
\* as it was when the request arrived.
C27_RejectedBeforeAnyAdapterCall ==
    (http.pc # "none") =>
        LET apiKey == ApiKeyOf(http.authorization)
            untouched == /\ ~ http.applied
                         /\ http.pc # "applyChanges"
                         /\ last.op = "none"
                         /\ records = http.before
        IN /\ apiKey = "" =>
                  /\ http.pc = "answered" /\ http.status = 401
                  /\ ~ http.next /\ untouched
           /\ (apiKey # "" /\ ~ validateApiKey(apiKey)) =>
                  /\ http.pc = "answered" /\ http.status = 403
                  /\ ~ http.next /\ untouched
           /\ (validateApiKey(apiKey) /\ http.body.deviceId = ""
                   /\ http.pc = "answered") =>
                  /\ http.status = 400 /\ untouched

\* a request with the accepted key and no deviceId, carrying a record, was
\* answered 400 by a server whose store already holds a record
C27_Witness ==
    /\ http.pc = "answered"
    /\ http.status = 400
    /\ http.next
    /\ http.body.records # << >>
    /\ records[SharedId] # Absent

\* sync call s is still running
C28_Running(s) == client.syncs[s].pc \notin {"resolved", "rejected"}

\* sync call s succeeds in this step
C28_Succeeds(s) == C28_Running(s) /\ client'.syncs[s].pc = "resolved"

\* C28: when a sync() call succeeds, the client's lastSyncAt becomes the
\* syncTimestamp of the response and the pending changes, deletions and
\* attachments become empty; no other step of a sync() call, and so no sync()
\* call that fails (a response that is not OK, a network error or a failed
\* attachment upload), changes lastSyncAt or any of the three queues.
C28_SyncOutcome ==
    [][client'.syncs # client.syncs =>
           IF \E s \in DOMAIN client.syncs : C28_Succeeds(s)
           THEN \A s \in DOMAIN client.syncs :
                    C28_Succeeds(s) =>
                        /\ client'.lastSyncAt =
                               client.syncs[s].response.syncTimestamp
                        /\ client'.pendingChanges = << >>
                        /\ client'.pendingDeletions = << >>
                        /\ client'.pendingAttachments = {}
           ELSE ClientFields(client') = ClientFields(client)]_vars

\* a first sync succeeded; a second one, answered with a later
\* syncTimestamp, failed at the upload of its attachment and left the
\* checkpoint of the first and the queued change in place
C28_Witness ==
    /\ Len(client.syncs) = 2
    /\ client.syncs[1].pc = "resolved"
    /\ client.syncs[2].pc = "rejected"
    /\ "response" \in DOMAIN client.syncs[2]
    /\ client.lastSyncAt = client.syncs[1].response.syncTimestamp
    /\ client.lastSyncAt # client.syncs[2].response.syncTimestamp
    /\ client.pendingChanges # << >>
    /\ client.pendingAttachments # {}

\* C29: the checkpoint is monotonic per device: the lastSyncAt a SyncClient
\* holds never decreases, the server clock never going back, for every
\* sequence of sync() calls, also calls that overlap and whose responses
\* arrive in another order than the requests were sent.
C29_CheckpointNeverDecreases ==
    [][client.lastSyncAt # NaT =>
           DateGE(client'.lastSyncAt, client.lastSyncAt)]_vars

\* the call has left applyRecords
C30_Exited == connection.pc \in {"returned", "rejected"}

\* C30: MySQLAdapter.applyRecords is all-or-nothing. Until the call commits,
\* and so whenever it fails, the committed rows of the records table and of
\* the changes table are those from before the call; when an upsert, a
\* change-log insert or the commit failed and the rollback succeeded, the
\* transaction holds none of the call's writes and the error that propagates
\* is that failure; a call that returns has stored every record of the batch
\* and one log entry per record; and the connection taken from the pool is
\* released exactly once when the call exits, by a commit, a rollback, a
\* failed beginTransaction or a failed rollback, and not before.
C30_AllOrNothing ==
    (connection.pc # "none") =>
        /\ connection.pc # "returned" =>
               /\ records = connection.before.records
               /\ changeLog = connection.before.changeLog
        /\ connection.pc = "rejected" =>
               /\ "error" \in DOMAIN connection
               /\ connection.error \in {"upsert", "log", "commit"} =>
                      connection.tx = connection.before
        /\ connection.pc = "returned" =>
               /\ \A k \in DOMAIN connection.batch :
                      records[connection.batch[k].id] = connection.batch[k]
               /\ \A id \in Ids \ C22_IdsOf(connection.batch) :
                      records[id] = connection.before.records[id]
               /\ Len(changeLog) =
                      Len(connection.before.changeLog) + Len(connection.batch)
        /\ connection.released =
               IF C30_Exited THEN connection.acquired ELSE 0

\* the change-log insert of the second record of a batch failed, after three
\* statements of the transaction had succeeded; the call was rejected, the
\* tables hold what they held, and the connection was released once
C30_Witness ==
    /\ connection.pc = "rejected"
    /\ connection.error = "log"
    /\ connection.k = 2
    /\ connection.released = 1
    /\ records = connection.before.records
    /\ \E id \in Ids : records[id] # Absent

\* C31: applyChanges never consults payload.deletedIds. After a call whose
\* payload names records in deletedIds, the store is what applying the
\* resolved records alone makes of the store before the call, whatever
\* deletedIds holds; every record named in deletedIds that was live is still
\* live, no id is tombstoned, and the deletedIds of the result is the empty
\* list.
C31_DeletedIdsAreIgnored ==
    (last.op = "applyChanges" /\ "deletedIds" \in DOMAIN last.payload) =>
        /\ last.result.deletedIds = << >>
        /\ deletedRecords = {}
        /\ \A id \in Range(last.payload.deletedIds) :
               last.before[id] # Absent => records[id] # Absent
        /\ records = MemoryApplyRecords(last.before, << >>,
                                        last.resolvedRecords,
                                        last.payload.deviceId).records

\* a sync that submits no record and names a live record in deletedIds has
\* returned; the record is as it was
C31_Witness ==
    /\ last.op = "applyChanges"
    /\ "deletedIds" \in DOMAIN last.payload
    /\ last.payload.records = << >>
    /\ SharedId \in Range(last.payload.deletedIds)
    /\ last.before[SharedId] # Absent
    /\ records[SharedId] = last.before[SharedId]

\* vector1 dominates vector2: at least vector2's count for every device of
\* vector2, and a greater count for some device, a missing entry counting 0
C32_Dominates(vector1, vector2) ==
    /\ \A d \in DOMAIN vector2 : Counter(vector1, d) >= vector2[d]
    /\ \E d \in DOMAIN vector1 \cup DOMAIN vector2 :
           Counter(vector1, d) > Counter(vector2, d)

\* C32: isSuccessor(v1, v2) is true exactly when v1[d] >= v2[d] for every
\* device d present in v2, a missing entry counting as 0, and v1 is strictly
\* greater in at least one dimension, dimensions present only in v1 counting
\* when positive; it never holds in both directions, and not for two
\* identical vectors, which hasConflict therefore reports as conflicting.
C32_IsSuccessorIsStrictDominance ==
    (last.op = "isSuccessor") =>
        /\ last.result = C32_Dominates(last.vector1, last.vector2)
        /\ ~ (last.result /\ last.exchanged)
        /\ last.vector1 = last.vector2 =>
               /\ ~ last.result
               /\ hasConflict(Versioned(last.vector1), Versioned(last.vector2))

\* isSuccessor held for a vector that is greater only in a dimension the
\* other vector lacks, while the other vector has a zero entry it lacks
C32_Witness ==
    /\ last.op = "isSuccessor"
    /\ last.result
    /\ last.vector1 = [d \in {"A"} |-> 1]
    /\ last.vector2 = [d \in {"B"} |-> 0]

\* C33: MemoryAdapter.getChangesSince(t, d) leaves out a live record only
\* when the record was not updated after t or when every change to it since
\* t was made by d: a record d wrote in the past and another device changed
\* after t is returned to d.
C33_ExcludesOnlyOwnChanges ==
    adapter = "MemoryAdapter" =>
        \A t \in Checkpoints : \A d \in Devices :
            \A r \in LiveRecords(records) :
                (r.id \notin deletedRecords
                     /\ r \notin MemoryGetChangesSince(records, deletedRecords,
                                                       changeLog, t, d)) =>
                    \/ ~ DateGT(r.updatedAt, t)
                    \/ \A i \in DOMAIN changeLog :
                           (changeLog[i].recordId = r.id
                                /\ DateGT(changeLog[i].timestamp, t)) =>
                               changeLog[i].deviceId = d

\* C34: in sequential operation no change is missed: a record another
\* device stored after the reader's last successful sync is in
\* updatedRecords of the reader's next sync, sent with the syncTimestamp of
\* that last sync, whatever updatedAt the record carries.
C34_NoMissedChange ==
    (/\ last.op = "applyChanges"
     /\ last.payload.deviceId = Reader
     /\ last.payload.lastSyncAt # NaT) =>
        \A i \in DOMAIN trace : \A j \in DOMAIN trace[i].stored :
            \E r \in AsSet(last.result.updatedRecords) :
                r.id = trace[i].stored[j].id

\* C35: no change is missed under overlap: a record whose write commits
\* after the read step of the reader's call and before that call produces
\* its syncTimestamp is in updatedRecords of the reader's next sync, sent
\* with that syncTimestamp.
C35_NoMissedChangeUnderOverlap ==
    calls[ReaderCall].pc = "resolved" =>
        \A i, m \in CallsMade(ReaderCall, "getChangesSince") :
        \A k \in CallsMade(ReaderCall, "applyRecords") :
        \A j \in CallsMade(WriterCall, "applyRecords") :
            (i < j /\ j < k /\ k < m) =>
                \A x \in DOMAIN trace[j].records :
                    \E r \in AsSet(calls[ReaderCall].serverChanges) :
                        r.id = trace[j].records[x].id

\* C36: the first sync of a device, sent with the initial checkpoint of
\* SyncClient (the empty string), returns in updatedRecords every live
\* record the other devices have written.
C36_FirstSyncReturnsEverything ==
    (/\ last.op = "applyChanges"
     /\ last.payload.deviceId = Reader
     /\ last.payload.lastSyncAt = NewClient.lastSyncAt) =>
        \A r \in LiveRecords(last.before) :
            r.id \notin deletedRecords =>
                r \in AsSet(last.result.updatedRecords)

\* C37: pruning does not change query results: after any sequence of
\* writes, ChangeTrackingAdapter.getChangesSince(t, d) returns for every t
\* and d the same set of records as an adapter that made the same writes
\* and never pruned its change log.
C37_PruningKeepsQueryResults ==
    \A t \in Checkpoints : \A d \in Devices :
        AsSet(TrackingGetChangesSince(records, deletedRecords, changeTable, t, d))
            = AsSet(TrackingGetChangesSince(records, deletedRecords, changeLog, t, d))

\* C38: in every reachable adapter state, whatever sequence of applyRecords
\* and deleteRecord led to it (writing an id again after its deletion
\* included), no record id is both live and in deletedRecords, so that a
\* record written again after its deletion is not hidden from
\* getChangesSince.
C38_NeverLiveAndTombstoned ==
    \A id \in Ids : ~ (records[id] # Absent /\ id \in deletedRecords)

\* C39: an applyChanges call in which every client record loses to a
\* strictly newer server version under the default resolver changes
\* nothing on the server: the live records keep their values and no
\* change-log entry of the requesting device is added for those records.
C39_LosingSyncChangesNothing ==
    [][(/\ last'.op = "applyChanges"
        /\ last' # last
        /\ resolveConflict = "default"
        /\ last'.payload.records # << >>
        /\ \A i \in DOMAIN last'.payload.records :
               \E s \in AsSet(last'.serverChanges) :
                   /\ s.id = last'.payload.records[i].id
                   /\ DateGT(s.updatedAt, last'.payload.records[i].updatedAt))
           => /\ records' = records
              /\ \A k \in DOMAIN changeLog' \ DOMAIN changeLog :
                     changeLog'[k].deviceId # last'.payload.deviceId]_vars

\* C40: the client loses no queued change: a record that is pending when a
\* sync() call completes, and that no sync request carries in its payload
\* (it was queued while the call awaited the response), is still in
\* pendingChanges after the call.
C40_NoQueuedChangeIsLost ==
    [][\A s \in DOMAIN client.syncs :
           (client.syncs[s].pc # "resolved" /\ client'.syncs[s].pc = "resolved") =>
               \A r \in Range(client.pendingChanges) :
                   \/ r \in Range(client'.pendingChanges)
                   \/ \E q \in DOMAIN client.syncs :
                          /\ client.syncs[q].pc # "rejected"
                          /\ r \in Range(client.syncs[q].records)]_vars

====
